---- MODULE Spec2Model ----
(***************************************************************************)
(* A model of the request-resolution and retry state machine of            *)
(* @superhero/http-request.                                                *)
(*                                                                         *)
(* The repository holds three variants of the engine (class Request):      *)
(*   "index_js"    src/index.js                                            *)
(*   "part_000_a"  src/unnamed/part_000, lines 353-1172                    *)
(*   "part_000_b"  src/unnamed/part_000, lines 1174-2035                   *)
(* The variable impl says which variant runs; every operator that differs  *)
(* between the variants takes it from there.                               *)
(*                                                                         *)
(* Numbers: a retry value r is modelled by the integer 2*r (so that the    *)
(* fractional values 0.5, 1.5, -0.5, ... are inputs).                       *)
(***************************************************************************)
EXTENDS Integers, Sequences, FiniteSets, TLC

\* ------------------------------------------------------------------ bounds
NumCalls       == 2   \* logical calls an engine instance may run concurrently
NumUsers       == 2   \* callers of connect / close / reconnect beside the calls
MaxSessions    == 3   \* HTTP/2 sessions an engine instance creates
MaxAttempts    == 3   \* the largest attempt budget a call is started with
MaxActive      == 2   \* calls and callers that use an engine instance concurrently
MaxHeaders     == 2   \* headers a call is given
MaxLines       == 4   \* lines of the body of an event stream

Calls   == 1..NumCalls
Users   == (NumCalls + 1)..(NumCalls + NumUsers)
Threads == Calls \cup Users
\* Names the listener console.error where a listener is named by its thread.
Console == NumCalls + NumUsers + 1
Sids    == 1..MaxSessions
Impls   == {"index_js", "part_000_a", "part_000_b"}

\* Statuses a server answers with: a success, a redirect, an error status that
\* is never declared retryable and one that may be.
Statuses    == {200, 302, 404, 503}
RetryableStatus == 503
\* What the body of a response is: JSON that parses, JSON content type with a
\* body that does not parse, or another media type.
Bodies      == {"json_ok", "json_bad", "text"}

\* ------------------------------------------------------- failure kinds
CLIENT_ERROR         == "E_HTTP_REQUEST_CLIENT_ERROR"
CLIENT_TIMEOUT       == "E_HTTP_REQUEST_CLIENT_TIMEOUT"
DOWNSTREAM_ERROR     == "E_HTTP_REQUEST_DOWNSTREAM_ERROR"
INVALID_BODY_FORMAT  == "E_HTTP_REQUEST_INVALID_RESPONSE_BODY_FORMAT"
INVALID_STATUS       == "E_HTTP_REQUEST_INVALID_RESPONSE_STATUS"
SESSION_DESTROYED    == "E_HTTP_REQUEST_HTTP2_SESSION_DESTROYED"
SESSION_CLOSED       == "E_HTTP_REQUEST_HTTP2_SESSION_CLOSED"
REQUEST_FAILED       == "E_HTTP_REQUEST_FAILED"
CONNECT_ERROR        == "E_HTTP_REQUEST_CONNECT_ERROR"
RETRY_ERROR          == "E_HTTP_REQUEST_RETRY_ERROR"
\* What node:http2 throws from session.request() on a dead session.
ERR_HTTP2_INVALID_SESSION == "ERR_HTTP2_INVALID_SESSION"
ERR_HTTP2_GOAWAY_SESSION  == "ERR_HTTP2_GOAWAY_SESSION"
\* The error of the transport a session emits when it cannot connect.
TRANSPORT_ERROR           == "ECONNREFUSED"
STREAM_ERROR              == "ECONNRESET"
RETRY_RECONNECT == "E_HTTP_REQUEST_RETRY_HTTP2_RECONNECT"   \* built in the catch of reconnect()

\* ----------------------------------------------------------- values
\* A settled value: a response, an error, or undefined.
\*   from  : the attempt (1, 2, ...) whose exchange produced it (0: none)
\*   status: the status of the response, or of error.response (0: no response)
\*   cause : the code of error.cause ("" when there is none)
\*   outer : the code of the error the public method wraps the value in before
\*           the caller sees it ("" when it is passed on as it is)
NoValue   == [kind |-> "none", code |-> "", status |-> 0, body |-> "", cause |-> "",
              from |-> 0, outer |-> ""]
Undefined == [NoValue EXCEPT !.kind = "undefined"]
Response(status, body, n) ==
  [NoValue EXCEPT !.kind = "response", !.status = status, !.body = body, !.from = n]
Failure(code, status, cause, n) ==
  [NoValue EXCEPT !.kind = "error", !.code = code, !.status = status, !.cause = cause, !.from = n]

VARIABLES
  impl,       \* the variant of the engine
  crashed,    \* an exception escaped an event listener: the process is gone
  http2Session, \* this.http2Session: the session the engine refers to (0: none)
  session,    \* session[s]: the state and the listeners of HTTP/2 session s
  lcp,        \* lcp[t]: the promise thread t awaits in connect / close / reconnect:
              \* none, pending, resolved, or the code of the error it rejected with
  options,    \* options[c]: the merged RequestOptions of call c
  pc,         \* pc[c]: where call c is
  retry,      \* retry[c]: the loop counter of #resolveRetryLoop
  errorTrace, \* errorTrace[c]: the recorded failures (errorTrace / reasons)
  exchange,   \* exchange[c]: the state of the attempt's exchange
  promise,    \* promise[c]: the settlement of the attempt's promise (#resolve)
  attempts,   \* attempts[c]: resolution attempts started
  outcomes,   \* outcomes[c]: how each finished attempt settled, in order
  sink,       \* sink[c]: the stream options.downstream of call c
  dispatch,   \* the config of the engine, and the method and the URL of the
              \* request a verb shortcut makes of its argument
  result      \* result[c]: how the call settled

sessionVars == <<http2Session, session, lcp, crashed>>
constVars   == <<options, dispatch>>   \* what the retry loop and the handlers only read
callVars    == <<constVars, retry, errorTrace, exchange, promise, attempts, outcomes, sink,
                 result>>
vars == <<impl, pc, sessionVars, callVars>>

\* ------------------------------------------------------ pure functions
\* A sequence without its last element, and its last element.
Front(tr) == SubSeq(tr, 1, Len(tr) - 1)
Last(tr)  == tr[Len(tr)]

\* Math.floor and Math.abs on a retry value given as 2*r.
MathFloor(h) == h \div 2
MathAbs(n)   == IF n < 0 THEN -n ELSE n

\* let retry = Math.abs(Math.floor(options.retry)) [+ 1]
InitialRetry(i, h) ==
  IF i = "part_000_a" THEN MathAbs(MathFloor(h)) + 1 ELSE MathAbs(MathFloor(h))

\* A faulty gate: the redirect range is not looked at.
ThrowOnStatusErrorOnly(o, status) ==
  status >= 400 /\ ~o.doNotThrowOnErrorStatus

\* The throw-policy gate of #resolveOnResponse: TRUE when the status fails it.
ThrowOnStatus(o, status) ==
  \/ (status >= 400 /\ ~o.doNotThrowOnErrorStatus)
  \/ (status >= 300 /\ ~o.doNotThrowOnRedirectStatus /\ status < 400)

\* A faulty success branch: the status need not be declared retryable.
RetryOnResponseUndeclared(o, status, r) ==
  status >= 400 /\ r > 0

\* The success branch of the loop: a non-throwing response is retried.
RetryOnResponse(o, status, r) ==
  /\ status >= 400
  /\ r > 0
  /\ (status \in o.retryOnStatus \/ o.retryOnErrorResponseStatus)

\* Faulty classifications: each one gets one failure kind wrong.
RecordedShape(o, e, clientError, timeout, status) ==
  CASE e.code = CLIENT_ERROR        -> clientError
    [] e.code = CLIENT_TIMEOUT      -> timeout
    [] e.code = DOWNSTREAM_ERROR    -> o.retryOnDownstreamError
    [] e.code = INVALID_BODY_FORMAT -> o.retryOnInvalidResponseBodyFormat
    [] e.code = INVALID_STATUS      -> status
    [] OTHER                        -> FALSE
\* a client error is thrown
RecordedClientErrorFatal(o, e) ==
  RecordedShape(o, e, FALSE, o.retryOnClientTimeout,
                o.retryOnErrorResponseStatus \/ e.status \in o.retryOnStatus)
\* retryOnStatus is not looked at
RecordedIgnoresRetryOnStatus(o, e) ==
  RecordedShape(o, e, TRUE, o.retryOnClientTimeout, o.retryOnErrorResponseStatus)
\* every status failure is recorded
RecordedAnyStatus(o, e) ==
  RecordedShape(o, e, TRUE, o.retryOnClientTimeout, TRUE)
\* a timeout is recorded whatever retryOnClientTimeout says
RecordedTimeoutAlways(o, e) ==
  RecordedShape(o, e, TRUE, TRUE,
                o.retryOnErrorResponseStatus \/ e.status \in o.retryOnStatus)

\* A faulty classification: every failure is recorded.
RecordedAll(o, e) == TRUE

\* #resolveRetryLoopError without the session kinds: TRUE when the failure is
\* recorded (pushed), FALSE when it is thrown.
Recorded(o, e) ==
  CASE e.code = CLIENT_ERROR        -> TRUE
    [] e.code = CLIENT_TIMEOUT      -> o.retryOnClientTimeout
    [] e.code = DOWNSTREAM_ERROR    -> o.retryOnDownstreamError
    [] e.code = INVALID_BODY_FORMAT -> o.retryOnInvalidResponseBodyFormat
    [] e.code = INVALID_STATUS      -> o.retryOnErrorResponseStatus \/ e.status \in o.retryOnStatus
    [] OTHER                        -> FALSE

\* A faulty #onStreamEnd: a body that does not parse is passed on as it is.
StreamEndRaw(status, body, n) ==
  Response(status, IF body = "json_ok" THEN "parsed" ELSE "raw", n)

\* #onStreamEnd: the value the buffered body settles the attempt with.
StreamEnd(status, body, n) ==
  IF body = "json_bad"
  THEN Failure(INVALID_BODY_FORMAT, status, "parse_error", n)
  ELSE Response(status, IF body = "json_ok" THEN "parsed" ELSE "raw", n)

\* A faulty status failure: the decode failure of the body takes its place.
StatusFailureDecodeWins(status, body, n) ==
  IF body = "json_bad" THEN Failure(INVALID_BODY_FORMAT, status, "parse_error", n)
                       ELSE Failure(INVALID_STATUS, status, "", n)

\* A faulty status failure: the response is not attached.
StatusFailureNoSnapshot(status, body, n) ==
  Failure(INVALID_STATUS, 0, IF body = "json_bad" THEN INVALID_BODY_FORMAT ELSE "", n)

\* The failure of a response that failed the gate: the body is buffered first,
\* a decode failure of the body becomes error.cause.
StatusFailure(status, body, n) ==
  Failure(INVALID_STATUS, status, IF body = "json_bad" THEN INVALID_BODY_FORMAT ELSE "", n)

\* ------------------------------------------------- method and URL
\* The verbs of the shortcuts, and the method values a config or an argument
\* may carry ("": none).
Verbs        == {"GET", "POST", "PUT", "PATCH", "DELETE", "HEAD", "OPTIONS", "TRACE"}
MethodValues == {"", "POST", "post"}

\* String.prototype.toUpperCase on the method values.
ToUpperCase(m) == IF m = "post" THEN "POST" ELSE m

\* Object.assign on one key: the last source that has the key wins.
Assign(default, config, own) ==
  IF own # "" THEN own ELSE IF config # "" THEN config ELSE default

\* The method of the merged options of a verb shortcut. #fetch gives the verb
\* as a default under the config and the argument; the shortcuts of part_000_b
\* write it into the argument, and fetch puts it in upper case.
MergedMethod(i, verb, configMethod, ownMethod) ==
  IF i = "part_000_b"
  THEN ToUpperCase(Assign("", configMethod, verb))
  ELSE Assign(verb, configMethod, ownMethod)

\* A URL string is a sequence of tokens: an origin (scheme and host), "/", or a
\* name; <<>> is no string at all (undefined or '').
Origins == {"http://h", "http://o"}
Slash   == "/"
IsAbsolute(u) == u # <<>> /\ Head(u) \in Origins
IsRooted(u)   == u # <<>> /\ Head(u) = Slash

\* A parsed URL, or the TypeError of new URL.
InvalidUrl == [ok |-> FALSE, origin |-> "", path |-> <<>>]
Url(origin, path) ==
  [ok |-> TRUE, origin |-> origin, path |-> IF path = <<>> THEN <<Slash>> ELSE path]
Href(w) == <<w.origin>> \o w.path

\* new URL(u)
ParseUrl(u) == IF IsAbsolute(u) THEN Url(Head(u), Tail(u)) ELSE InvalidUrl

\* The path up to its last "/".
RECURSIVE Directory(_)
Directory(path) ==
  IF path = <<>> \/ path[Len(path)] = Slash THEN path
  ELSE Directory(SubSeq(path, 1, Len(path) - 1))

\* new URL(u, base): the base is parsed first when it is given; an absolute u
\* then stands for itself, a rooted u replaces the path of the base, any other
\* u replaces the last segment of it.
ParseUrlWithBase(u, base) ==
  IF base = <<>> THEN ParseUrl(u)
  ELSE LET b == ParseUrl(base) IN
       IF ~b.ok THEN InvalidUrl
       ELSE IF IsAbsolute(u) THEN ParseUrl(u)
       ELSE IF IsRooted(u) THEN Url(b.origin, u)
       ELSE Url(b.origin, Directory(b.path) \o u)

\* #fetch of src/index.js and part_000_a: the stored path prefix (config.url) is
\* put in front of a URL that does not start with "/"; a call without a URL
\* gets the prefix from the config.
PrefixedUrl(prefix, u) ==
  IF prefix # <<>> /\ u # <<>>
  THEN IF IsRooted(u) THEN u ELSE prefix \o u
  ELSE IF u # <<>> THEN u ELSE prefix

\* #normalizeUrl(url, base) of src/index.js and part_000_a.
NormalizeUrl2(u, base) ==
  IF u # <<>> THEN ParseUrlWithBase(u, base) ELSE ParseUrl(base)

\* #normalizeUrl(authority, base, url) of part_000_b.
NormalizeUrl3(authority, base, u) ==
  LET b0 == IF authority # <<>> /\ base # <<>>
            THEN ParseUrlWithBase(base, authority)
            ELSE ParseUrl(IF base # <<>> THEN base ELSE authority)
      b1 == IF u # <<>> /\ b0.path[Len(b0.path)] # Slash
            THEN Url(b0.origin, b0.path \o <<Slash>>)
            ELSE b0
  IN  IF ~b0.ok THEN InvalidUrl
      ELSE IF u # <<>> THEN ParseUrlWithBase(u, Href(b1)) ELSE b1

\* The target of a call with the URL u on an engine with the config cfg.
TargetUrl(i, cfg, u) ==
  IF i = "part_000_b"
  THEN NormalizeUrl3(cfg.authority, cfg.base, u)
  ELSE NormalizeUrl2(PrefixedUrl(cfg.url, u), cfg.base)

\* ------------------------------------------------- headers and body
\* The header names a call may use, and String.prototype.toLowerCase on them.
HeaderNames == {"Content-Type", "content-type", "Custom-Header", "custom-header"}
ToLowerCase(k) ==
  CASE k = "Content-Type"  -> "content-type"
    [] k = "Custom-Header" -> "custom-header"
    [] OTHER               -> k

\* An object is the sequence of its own <<key, value>> pairs in the order of
\* Object.keys. object[key] ("": undefined), and object[key] = value, which
\* keeps the place of a key the object has already.
Get(obj, key) ==
  IF \E j \in 1..Len(obj) : obj[j][1] = key
  THEN obj[CHOOSE j \in 1..Len(obj) : obj[j][1] = key][2]
  ELSE ""
Put(obj, key, value) ==
  IF \E j \in 1..Len(obj) : obj[j][1] = key
  THEN [j \in 1..Len(obj) |-> IF obj[j][1] = key THEN <<key, value>> ELSE obj[j]]
  ELSE Append(obj, <<key, value>>)

\* A faulty normalisation: a key the result has already is not written again.
RECURSIVE NormalizeHeadersFirstWins(_)
NormalizeHeadersFirstWins(headers) ==
  IF headers = <<>> THEN <<>>
  ELSE LET normalized == NormalizeHeadersFirstWins(Front(headers))
           key        == ToLowerCase(Last(headers)[1])
       IN  IF Get(normalized, key) # "" THEN normalized
           ELSE Put(normalized, key, Last(headers)[2])

\* #normalizeHeaders: headerKeys.forEach((key) => normalized[key.toLowerCase()] = headers[key])
RECURSIVE NormalizeHeaders(_)
NormalizeHeaders(headers) ==
  IF headers = <<>> THEN <<>>
  ELSE Put(NormalizeHeaders(Front(headers)),
           ToLowerCase(Last(headers)[1]), Last(headers)[2])

\* contentType?.startsWith('application/json') on the values a header may have.
ContentTypes == {"application/json", "application/json; charset=utf-8", "text/plain"}
StartsWithJson(contentType) ==
  contentType \in {"application/json", "application/json; charset=utf-8"}

\* A body: none (undefined), a string, or an object with string values. What is
\* written to the request is a sequence of tokens, or undefined.
NoBody           == [type |-> "undefined", text |-> "", pairs |-> <<>>]
StringBody(text) == [NoBody EXCEPT !.type = "string", !.text = text]
ObjectBody(obj)  == [NoBody EXCEPT !.type = "object", !.pairs = obj]
NoText     == [defined |-> FALSE, tokens |-> <<>>]
Text(toks) == [defined |-> TRUE, tokens |-> toks]

\* The written members of an object one after the other, sep between two of them.
RECURSIVE Join(_, _)
Join(members, sep) ==
  IF members = <<>> THEN <<>>
  ELSE IF Len(members) = 1 THEN members[1]
  ELSE Join(Front(members), sep) \o <<sep>> \o Last(members)

\* JSON.stringify: undefined for undefined.
JsonMember(kv) == <<"\"", kv[1], "\"", ":", "\"", kv[2], "\"">>
JsonStringify(body) ==
  CASE body.type = "undefined" -> NoText
    [] body.type = "string"    -> Text(<<"\"", body.text, "\"">>)
    [] body.type = "object"    -> Text(<<"{">> \o Join([k \in 1..Len(body.pairs) |-> JsonMember(body.pairs[k])], ",") \o <<"}">>)

\* querystring.stringify: '' for what is not an object.
FormMember(kv) == <<kv[1], "=", kv[2]>>
QueryStringify(body) ==
  IF body.type = "object" THEN Text(Join([k \in 1..Len(body.pairs) |-> FormMember(body.pairs[k])], "&")) ELSE Text(<<>>)

\* A faulty normalisation: the content type is not looked at.
NormalizeBodyAlwaysForm(body, contentType) ==
  IF body.type = "string" THEN Text(<<body.text>>) ELSE QueryStringify(body)

\* #normalizeBody
NormalizeBody(body, contentType) ==
  IF body.type = "string" THEN Text(<<body.text>>)
  ELSE IF StartsWithJson(contentType) THEN JsonStringify(body)
  ELSE QueryStringify(body)

\* String.prototype.length of a token (UTF-16 code units) and the bytes of its
\* UTF-8 form. "U+00E9" stands for the string of that one character.
StringLength(tok) ==
  CASE tok = "test body"        -> 9
    [] tok \in {"bar", "baz"}   -> 3
    [] tok = "{}"               -> 2
    [] tok = ""                 -> 0
    [] OTHER                    -> 1
ByteLength(tok) == IF tok = "U+00E9" THEN 2 ELSE StringLength(tok)

RECURSIVE Length(_)
Length(toks) == IF toks = <<>> THEN 0 ELSE Length(Front(toks)) + StringLength(Last(toks))
RECURSIVE Bytes(_)
Bytes(toks) == IF toks = <<>> THEN 0 ELSE Bytes(Front(toks)) + ByteLength(Last(toks))

\* #createBodyHeaderDelimiter: the header that is assigned to the headers of the
\* request (chunked: transfer-encoding, else content-length with the length).
\* src/index.js reads body.length, which throws for an undefined body;
\* part_000 reads body?.length || 0.
NoDelimiter == [ok |-> FALSE, chunked |-> FALSE, length |-> -1]
CreateBodyHeaderDelimiter(i, text, isStreamed) ==
  IF isStreamed           THEN [NoDelimiter EXCEPT !.ok = TRUE, !.chunked = TRUE]
  ELSE IF text.defined    THEN [NoDelimiter EXCEPT !.ok = TRUE, !.length = Length(text.tokens)]
  ELSE IF i = "index_js"  THEN NoDelimiter
  ELSE [NoDelimiter EXCEPT !.ok = TRUE, !.length = 0]

\* The framing headers of the request that is made: #resolveHttp2Client deletes
\* transfer-encoding before it opens the stream.
Framing(i, text, upstream, onSession) ==
  LET delimiter == CreateBodyHeaderDelimiter(i, text, upstream \/ onSession)
  IN  IF onSession /\ delimiter.chunked THEN [delimiter EXCEPT !.chunked = FALSE]
      ELSE delimiter

\* ------------------------------------------------ the body of a response
\* A buffered text is a sequence of tokens: the lines that are not empty, and
\* the line feeds between the lines. A line is 'name: value'.
LineFeed          == [nl |-> TRUE, name |-> "", value |-> ""]
Line(name, value) == [nl |-> FALSE, name |-> name, value |-> value]
BlankLine         == Line("", "")
Lines             == {Line("a", "1"), Line("b", "x"), BlankLine}

\* The text of the lines ls, a line feed between two lines.
RECURSIVE TextOf(_)
TextOf(ls) ==
  IF ls = <<>> THEN <<>>
  ELSE (IF Len(ls) = 1 THEN <<>> ELSE TextOf(Front(ls)) \o <<LineFeed>>)
       \o (IF Last(ls) = BlankLine THEN <<>> ELSE <<Last(ls)>>)

\* String.prototype.trim on the tokens: the line feeds at both ends go.
RECURSIVE Trim(_)
Trim(toks) ==
  IF toks = <<>> THEN <<>>
  ELSE IF Head(toks).nl THEN Trim(Tail(toks))
  ELSE IF Last(toks).nl THEN Trim(Front(toks))
  ELSE toks

\* split('\n\n') and split('\n'), cur the piece that is being read.
RECURSIVE SplitEvents(_, _)
SplitEvents(toks, cur) ==
  IF toks = <<>> THEN <<cur>>
  ELSE IF Len(toks) >= 2 /\ toks[1].nl /\ toks[2].nl
       THEN <<cur>> \o SplitEvents(Tail(Tail(toks)), <<>>)
       ELSE SplitEvents(Tail(toks), Append(cur, Head(toks)))
RECURSIVE SplitLines(_, _)
SplitLines(toks, cur) ==
  IF toks = <<>> THEN <<cur>>
  ELSE IF Head(toks).nl THEN <<cur>> \o SplitLines(Tail(toks), <<>>)
       ELSE SplitLines(Tail(toks), Append(cur, Head(toks)))

\* A value of a decoded field: what JSON.parse made of it, or the raw text.
Parsed(text) == [json |-> TRUE, text |-> text]
Raw(text)    == [json |-> FALSE, text |-> text]

\* The entry of one line: [param, JSON.parse(value)], or [param, value] when the
\* value does not parse. The empty line gives ['', ''].
FieldEntry(field) ==
  IF field = <<>> THEN <<"", Raw("")>>
  ELSE <<field[1].name,
         IF field[1].value = "1" THEN Parsed(field[1].value) ELSE Raw(field[1].value)>>

\* Object.fromEntries
RECURSIVE FromEntries(_)
FromEntries(entries) ==
  IF entries = <<>> THEN <<>>
  ELSE Put(FromEntries(Front(entries)), Last(entries)[1], Last(entries)[2])

\* #contentTypeTextEventStream
ContentTypeTextEventStream(toks) ==
  LET events == SplitEvents(Trim(toks), <<>>)
  IN  [e \in 1..Len(events) |->
         LET fields == SplitLines(events[e], <<>>)
         IN  FromEntries([f \in 1..Len(fields) |-> FieldEntry(fields[f])])]

\* What #onStreamEnd makes of a buffered body whose content type is
\* text/event-stream: src/index.js knows JSON only and leaves the text.
NoDecoded == [kind |-> "none", text |-> <<>>, events |-> <<>>]
OnStreamEndEventStream(i, toks) ==
  IF i = "index_js" THEN [NoDecoded EXCEPT !.kind = "text", !.text = toks]
  ELSE [NoDecoded EXCEPT !.kind = "events", !.events = ContentTypeTextEventStream(toks)]

\* The config of an engine (base, the stored path prefix url, authority, method)
\* and the request of the last verb shortcut called: what the call was given
\* (own...) and what #fetch and #resolve make of it (via: the transport).
NoConfig   == [base |-> <<>>, url |-> <<>>, authority |-> <<>>, method |-> ""]
NoDispatch ==
  [state |-> "none", config |-> NoConfig, verb |-> "", ownMethod |-> "", ownUrl |-> <<>>,
   ownHeaders |-> <<>>, ownBody |-> NoBody, upstream |-> FALSE, via |-> "none",
   method |-> "", target |-> InvalidUrl, headers |-> <<>>, body |-> NoText,
   framing |-> NoDelimiter, received |-> <<>>, decoded |-> NoDecoded,
   reconnected |-> FALSE, before |-> NoConfig]

\* ------------------------------------------------------------ sessions
\* An HTTP/2 session of node:http2 and the listeners the engine put on it.
\*   state   : free (no such session), connecting, open, closing (closed is
\*             true, destroyed is not), destroyed (its 'close' event is still
\*             to come), gone ('close' was emitted)
\*   closeCbs: the threads whose close() passed a callback to session.close
\*   connectCb, errorCb: the thread whose connect() listens (0: nobody;
\*             errorCb may be Console, the listener console.error)
\*   onClose : the 'close' listener connect() of index.js registers
NoSession ==
  [state |-> "free", closeCbs |-> {}, connectCb |-> 0, errorCb |-> 0, onClose |-> FALSE]

IsClosed(s)    == s.state \in {"closing", "destroyed", "gone"}   \* session.closed
IsDestroyed(s) == s.state \in {"destroyed", "gone"}              \* session.destroyed
IsLive(s)      == s.state \in {"connecting", "open"}

RemoveAllListeners(s) ==
  [s EXCEPT !.closeCbs = {}, !.connectCb = 0, !.errorCb = 0, !.onClose = FALSE]

\* The sessions are numbered in the order http2.connect creates them.
IsFree(x)  == session[x].state = "free"
NewSid     == CHOOSE x \in Sids : IsFree(x) /\ \A y \in Sids : IsFree(y) => x <= y

\* close(): the executor of its promise, run by thread t.
CloseCall(t) ==
  IF impl = "index_js"
  THEN IF http2Session # 0 /\ ~IsClosed(session[http2Session])
       THEN /\ session' = [session EXCEPT ![http2Session] =
                             [@ EXCEPT !.state = "closing", !.closeCbs = @ \cup {t}]]
            /\ lcp' = [lcp EXCEPT ![t] = "pending"]
            /\ UNCHANGED http2Session
       ELSE /\ lcp' = [lcp EXCEPT ![t] = "resolved"]
            /\ UNCHANGED <<session, http2Session>>
  ELSE IF http2Session = 0
       THEN /\ lcp' = [lcp EXCEPT ![t] = "resolved"]
            /\ UNCHANGED <<session, http2Session>>
       ELSE IF ~IsClosed(session[http2Session])
            THEN /\ session' = [session EXCEPT ![http2Session] =
                      [RemoveAllListeners(@) EXCEPT !.state = "closing", !.closeCbs = {t}]]
                 /\ lcp' = [lcp EXCEPT ![t] = "pending"]
                 /\ UNCHANGED http2Session
            ELSE /\ session' = [session EXCEPT ![http2Session] = RemoveAllListeners(@)]
                 /\ http2Session' = 0
                 /\ lcp' = [lcp EXCEPT ![t] = "resolved"]

\* The promise of connect / close has rejected.
IsRejected(l) == l \notin {"none", "pending", "resolved"}

\* The error connect() rejects with when the session emits 'error': connect of
\* index.js passes reject itself to once('error'), part_000:450-456 wraps the
\* reason.
ConnectRejection(i) == IF i = "index_js" THEN TRANSPORT_ERROR ELSE CONNECT_ERROR

\* connect() after its inner close() has resolved: http2.connect and the
\* listeners, run by thread t.
ConnectCreate(t) ==
  /\ \E x \in Sids : IsFree(x)
  /\ session' = [session EXCEPT ![NewSid] =
        [state     |-> "connecting",
         closeCbs  |-> {},
         connectCb |-> t,
         errorCb   |-> IF impl = "part_000_b" THEN 0 ELSE t,
         onClose   |-> (impl = "index_js")]]
  /\ http2Session' = NewSid
  /\ lcp' = [lcp EXCEPT ![t] = "pending"]

\* --------------------------------------------------------------- calls
\* The exchange of an attempt.
\*   state : none, sent (request written), body (response headers received),
\*           ended (the body was buffered to its end), errored (destroyed with
\*           an error, 'close' still to come), closed
\*   via   : h1 (a connection of its own), h2 (a stream of session sid), none
\*   sid   : the session the attempt was directed to (0: none)
\*   dead  : the state of the session that refused to open a stream ("" otherwise)
\*   status, body: the status and the kind of body the server answered with
\*   errored: the code of the error the request was destroyed with ("": none)
\*   prior : what the preceding attempt of the call was directed to (h1, h2, none)
NoExchange ==
  [state |-> "none", via |-> "none", sid |-> 0, dead |-> "", status |-> 0, body |-> "",
   errored |-> "", prior |-> "none"]
NoResult   == [how |-> "pending", value |-> NoValue, retried |-> <<>>]

Codes(tr) == [k \in 1..Len(tr) |-> tr[k].code]

\* The call settles: the promise the public method returned resolves or rejects.
Settle(c, how, v, retried) ==
  /\ result' = [result EXCEPT ![c] = [how |-> how, value |-> v, retried |-> retried]]
  /\ pc' = [pc EXCEPT ![c] = "done"]

\* A failure leaves the engine: fetch of part_000_b wraps it, the others pass it on.
Rejected(c, v, retried) ==
  Settle(c, "rejected",
         [v EXCEPT !.outer = IF impl = "part_000_b" THEN REQUEST_FAILED ELSE ""],
         retried)

\* A faulty engine: the call keeps the transport of its first attempt.
SessionReferenceOfFirstAttempt(c) ==
  IF attempts[c] = 0 THEN http2Session ELSE exchange[c].sid

\* this.http2Session as #resolve reads it for the attempt that starts (0: not set).
SessionReference(c) == http2Session

\* #resolve: the executor of the attempt's promise. The transport is the session
\* when this.http2Session is set, a connection of its own otherwise.
StartResolve(c) ==
  LET n    == attempts[c] + 1
      ref  == SessionReference(c)
      s    == session[ref]
      last == [NoExchange EXCEPT !.prior = IF exchange[c].sid # 0 THEN "h2" ELSE exchange[c].via]
  IN  /\ attempts' = [attempts EXCEPT ![c] = n]
      /\ pc' = [pc EXCEPT ![c] = "resolve"]
      /\ IF ref = 0
         THEN /\ exchange' = [exchange EXCEPT ![c] =
                                [last EXCEPT !.state = "sent", !.via = "h1"]]
              /\ promise' = [promise EXCEPT ![c] = NoValue]
         ELSE IF IsDestroyed(s)
         THEN /\ exchange' = [exchange EXCEPT ![c] = [last EXCEPT !.dead = "destroyed", !.sid = ref]]
              /\ promise' = [promise EXCEPT ![c] =
                    Failure(IF impl = "index_js" THEN ERR_HTTP2_INVALID_SESSION
                                                 ELSE SESSION_DESTROYED, 0, "", n)]
         ELSE IF IsClosed(s)
         THEN /\ exchange' = [exchange EXCEPT ![c] = [last EXCEPT !.dead = "closed", !.sid = ref]]
              /\ promise' = [promise EXCEPT ![c] =
                    Failure(IF impl = "index_js" THEN ERR_HTTP2_GOAWAY_SESSION
                                                 ELSE SESSION_CLOSED, 0, "", n)]
         ELSE /\ exchange' = [exchange EXCEPT ![c] =
                    [last EXCEPT !.state = "sent", !.via = "h2", !.sid = ref]]
              /\ promise' = [promise EXCEPT ![c] = NoValue]

\* A faulty exit: whatever was recorded, the aggregate is thrown.
LoopExitAggregate(c, tr) ==
  Rejected(c, Failure(RETRY_ERROR, 0, "errorTrace", 0), Codes(tr))

\* The statements after the while loop of #resolveRetryLoop, tr the recorded failures.
LoopExit(c, tr) ==
  CASE impl = "index_js" ->
         Settle(c, "resolved", Undefined, <<>>)
    [] impl = "part_000_a" ->
         IF \A k \in 1..Len(tr) : tr[k].code = tr[1].code
         THEN Rejected(c, IF tr = <<>> THEN Undefined ELSE Last(tr), <<>>)
         ELSE Rejected(c, Failure(RETRY_ERROR, 0, "errorTrace", 0), Codes(tr))
    [] impl = "part_000_b" ->
         IF tr = <<>>
         THEN Rejected(c, Undefined, <<>>)
         ELSE Rejected(c, Last(tr), Codes(Front(tr)))

\* A faulty loop: the counter is a field of the engine, one for all its calls.
IterateSharedCounter(c, r, tr) ==
  /\ retry' = [k \in Calls |-> r - 1]
  /\ IF r = 0
     THEN LoopExit(c, tr) /\ UNCHANGED <<exchange, promise, attempts>>
     ELSE StartResolve(c) /\ UNCHANGED result

\* while(retry--) { ... await this.#resolve(options) : the test of the loop and,
\* when it passes, the start of the next attempt; r is the counter before the test.
Iterate(c, r, tr) ==
  /\ retry' = [retry EXCEPT ![c] = r - 1]
  /\ IF r = 0
     THEN LoopExit(c, tr) /\ UNCHANGED <<exchange, promise, attempts>>
     ELSE StartResolve(c) /\ UNCHANGED result

\* #fetch / fetch: the retry loop when options.retry is truthy, one #resolve otherwise.
Fetch(c) ==
  /\ pc[c] = "idle"
  /\ IF options[c].retry # 0
     THEN /\ UNCHANGED errorTrace
          /\ Iterate(c, InitialRetry(impl, options[c].retry), <<>>)
     ELSE /\ StartResolve(c)
          /\ UNCHANGED <<retry, errorTrace, result>>
  /\ UNCHANGED <<impl, sessionVars, constVars, sink, outcomes>>

\* ------------------------------------------------- events of an exchange
\* The stream options.downstream of a call.
\*   pipes   : the attempts whose response was piped to it, in order
\*   flowing : the attempts whose piped response has not ended yet
\*   finished: the sink was ended and has drained ('finish')
NoSink == [pipes |-> <<>>, flowing |-> {}, finished |-> FALSE]

\* A faulty downstream branch: the response is accepted and not piped.
PipeNothing(k, n) == k

\* readable.pipe(options.downstream); readable.resume() for the response of attempt n.
Pipe(k, n) == [k EXCEPT !.pipes = Append(@, n), !.flowing = @ \cup {n}]

\* A faulty downstream branch: the response waits for a body it never gets.
PipedResponseBuffered(status, n) == Response(status, "raw", n)

\* accept(response) of the downstream branch: status and headers, no body.
PipedResponse(status, n) == Response(status, "", n)

InFlight(c) ==
  /\ ~crashed
  /\ pc[c] = "resolve"
  /\ promise[c].kind = "none"
  /\ exchange[c].state \in {"sent", "body"}

\* A faulty promise: a later settlement replaces an earlier one.
SettleLast(p, v) == v

\* accept / reject of the attempt's promise: the first settlement stays.
SettleOnce(p, v) == IF p.kind = "none" THEN v ELSE p

\* A faulty handler: every error of the request is wrapped, the timeout too.
ResolveOnClientErrorWrapsAll(code, n) == Failure(CLIENT_ERROR, 0, code, n)

\* #resolveOnClientError, code the code of the error the request emitted: the
\* timeout is forwarded as it is, anything else becomes the cause of a ClientError.
ResolveOnClientError(code, n) ==
  IF code = CLIENT_TIMEOUT THEN Failure(CLIENT_TIMEOUT, 0, "", n)
                           ELSE Failure(CLIENT_ERROR, 0, "reason", n)

\* #onStreamError, the 'error' listener of a body that is being buffered, calls
\* a reject that no scope defines: the ReferenceError escapes the listener. On a
\* stream of a session the listener follows #resolveOnClientError on the same
\* emitter; on a connection of its own the response is destroyed with the
\* socket and emits the error itself.
OnStreamError(c) == crashed' = (exchange[c].state = "body")

\* 'error' on the request (not the abort of a timeout): #resolveOnClientError.
ClientErrorEvent(c) ==
  /\ InFlight(c)
  /\ promise' = [promise EXCEPT ![c] = SettleOnce(@, ResolveOnClientError(TRANSPORT_ERROR, attempts[c]))]
  /\ exchange' = [exchange EXCEPT ![c].state = "errored", ![c].errored = TRANSPORT_ERROR]
  /\ OnStreamError(c)
  /\ UNCHANGED <<impl, pc, http2Session, session, lcp, constVars, sink, retry, errorTrace, attempts,
                 outcomes, result>>

\* 'error' on the response of a connection of its own while its body is being
\* buffered (the connection was lost, the response was aborted): #onStreamError.
\* Nothing rejects the attempt.
StreamErrorEvent(c) ==
  /\ InFlight(c)
  /\ exchange[c].state = "body"
  /\ exchange[c].via = "h1"
  /\ exchange' = [exchange EXCEPT ![c].errored = STREAM_ERROR]
  /\ OnStreamError(c)
  /\ UNCHANGED <<impl, pc, http2Session, session, lcp, constVars, sink, retry, errorTrace, attempts,
                 outcomes, result, promise>>

\* 'close' before the attempt has settled: #connectionClosed.
ConnectionClosed(c) ==
  /\ InFlight(c)
  /\ promise' = [promise EXCEPT ![c] = SettleOnce(@, Failure(CLIENT_ERROR, 0, "", attempts[c]))]
  /\ exchange' = [exchange EXCEPT ![c].state = "closed"]
  /\ UNCHANGED <<impl, pc, sessionVars, constVars, sink, retry, errorTrace, attempts, outcomes, result>>

\* A faulty binding: the handler destroys the latest request of the call.
TimeoutUpstreamLatest(c, n) == attempts[c]

\* The request #resolveOnClientTimeout is bound to, by the number of its attempt:
\* the one the timer was set on.
TimeoutUpstream(c, n) == n

\* 'timeout': #resolveOnClientTimeout destroys the request with the timeout
\* error, whose 'error' event #resolveOnClientError forwards unchanged.
\* The timer of attempt n of call c fires. A request that has finished or has
\* been destroyed is not destroyed again.
ClientTimeoutEvent(c, n) ==
  /\ ~crashed
  /\ n \in 1..attempts[c]
  /\ IF TimeoutUpstream(c, n) = attempts[c] /\ InFlight(c)
     THEN /\ promise' = [promise EXCEPT ![c] =
                 SettleOnce(@, ResolveOnClientError(CLIENT_TIMEOUT, attempts[c]))]
          /\ exchange' = [exchange EXCEPT ![c].state = "errored", ![c].errored = CLIENT_TIMEOUT]
          /\ OnStreamError(c)
     ELSE UNCHANGED <<promise, exchange, crashed>>
  /\ UNCHANGED <<impl, pc, http2Session, session, lcp, constVars, sink, retry, errorTrace, attempts,
                 outcomes, result>>

\* 'response': #resolveOnResponse starts to buffer the body, for the failure of
\* the gate or for the response; with options.downstream a response that passes
\* the gate is piped to the sink and accepted at once, without a body. A dead
\* session delivers no response.
ResponseEvent(c, status) ==
  /\ InFlight(c)
  /\ exchange[c].state = "sent"
  /\ exchange[c].via = "h2" => session[exchange[c].sid].state \in {"open", "closing"}
  /\ IF ~ThrowOnStatus(options[c], status) /\ options[c].downstream
     THEN /\ exchange' = [exchange EXCEPT ![c].state = "piped", ![c].status = status]
          /\ sink' = [sink EXCEPT ![c] = Pipe(@, attempts[c])]
          /\ promise' = [promise EXCEPT ![c] = PipedResponse(status, attempts[c])]
     ELSE /\ exchange' = [exchange EXCEPT ![c].state = "body", ![c].status = status]
          /\ UNCHANGED <<sink, promise>>
  /\ UNCHANGED <<impl, pc, sessionVars, constVars, retry, errorTrace, attempts,
                 outcomes, result>>

\* The piped response of attempt n has ended: pipe() ends the sink, which drains
\* what it was given.
DownstreamFinished(c, n) ==
  /\ ~crashed
  /\ n \in sink[c].flowing
  /\ sink' = [sink EXCEPT ![c].flowing = @ \ {n}, ![c].finished = TRUE]
  /\ UNCHANGED <<impl, pc, sessionVars, constVars, retry, errorTrace, exchange, promise,
                 attempts, outcomes, result>>

\* The piped response of attempt n is cut before its end (the connection is
\* lost): pipe() leaves the sink as it is, nothing ends it.
DownstreamAborted(c, n) ==
  /\ ~crashed
  /\ n \in sink[c].flowing
  /\ sink' = [sink EXCEPT ![c].flowing = @ \ {n}]
  /\ UNCHANGED <<impl, pc, sessionVars, constVars, retry, errorTrace, exchange, promise,
                 attempts, outcomes, result>>

\* 'end' of the buffered body: #onStreamEnd, and for a response that failed the
\* gate the rejection with the status failure.
StreamEndEvent(c, body) ==
  /\ InFlight(c)
  /\ exchange[c].state = "body"
  /\ promise' = [promise EXCEPT ![c] =
        IF ThrowOnStatus(options[c], exchange[c].status)
        THEN StatusFailure(exchange[c].status, body, attempts[c])
        ELSE StreamEnd(exchange[c].status, body, attempts[c])]
  /\ exchange' = [exchange EXCEPT ![c].state = "ended", ![c].body = body]
  /\ UNCHANGED <<impl, pc, sessionVars, constVars, sink, retry, errorTrace, attempts, outcomes, result>>

\* 'close' after the 'end' of the response or after the 'error' of the request:
\* #connectionClosed rejects a promise that has settled. The loop may have gone
\* on in the meantime.
LateClose(c) ==
  /\ ~crashed
  /\ exchange[c].state \in {"ended", "errored"}
  /\ promise' = [promise EXCEPT ![c] = SettleOnce(@, Failure(CLIENT_ERROR, 0, "", attempts[c]))]
  /\ exchange' = [exchange EXCEPT ![c].state = "closed"]
  /\ UNCHANGED <<impl, pc, sessionVars, constVars, sink, retry, errorTrace, attempts, outcomes, result>>

\* ------------------------------------------- the retry loop after an attempt
Settled(c) == ~crashed /\ pc[c] = "resolve" /\ promise[c].kind # "none"

\* await this.#resolve(options) returned a response.
AttemptResolved(c) ==
  /\ Settled(c)
  /\ promise[c].kind = "response"
  /\ outcomes' = [outcomes EXCEPT ![c] = Append(@, promise[c])]
  /\ IF options[c].retry # 0 /\ RetryOnResponse(options[c], promise[c].status, retry[c])
     THEN Iterate(c, retry[c], errorTrace[c])
     ELSE /\ Settle(c, "resolved", promise[c], <<>>)
          /\ UNCHANGED <<retry, exchange, promise, attempts>>
  /\ UNCHANGED <<impl, sessionVars, constVars, sink, errorTrace>>

\* A faulty catch block: no attempt is taken for the last one.
LastAttemptNever(c) == FALSE

\* if(retry === 0) of the catch block (retry <= 0 in part_000:1691).
LastAttempt(c) == retry[c] <= 0

\* await this.#resolve(options) threw: the catch block and #resolveRetryLoopError.
AttemptRejected(c) ==
  LET e == promise[c]
      o == options[c]
  IN
  /\ Settled(c)
  /\ e.kind = "error"
  /\ outcomes' = [outcomes EXCEPT ![c] = Append(@, e)]
  /\ UNCHANGED <<impl, constVars, sink, crashed>>
  /\ CASE o.retry = 0 ->
            /\ Rejected(c, e, <<>>)
            /\ UNCHANGED <<retry, errorTrace, exchange, promise, attempts,
                           http2Session, session, lcp>>
       [] o.retry # 0 /\ LastAttempt(c) /\ impl # "part_000_b" ->
            /\ Rejected(c, e, <<>>)
            /\ UNCHANGED <<retry, errorTrace, exchange, promise, attempts,
                           http2Session, session, lcp>>
       [] o.retry # 0 /\ LastAttempt(c) /\ impl = "part_000_b" ->
            /\ errorTrace' = [errorTrace EXCEPT ![c] = Append(@, e)]
            /\ Iterate(c, retry[c], Append(errorTrace[c], e))
            /\ UNCHANGED <<http2Session, session, lcp>>
       [] o.retry # 0 /\ ~LastAttempt(c) /\ impl # "index_js"
                      /\ e.code \in {SESSION_DESTROYED, SESSION_CLOSED} ->
            /\ CloseCall(c)
            /\ pc' = [pc EXCEPT ![c] = "rc_close"]
            /\ UNCHANGED <<retry, errorTrace, exchange, promise, attempts, result>>
       [] o.retry # 0 /\ ~LastAttempt(c)
                      /\ ~(impl # "index_js" /\ e.code \in {SESSION_DESTROYED, SESSION_CLOSED}) ->
            IF Recorded(o, e)
            THEN /\ errorTrace' = [errorTrace EXCEPT ![c] = Append(@, e)]
                 /\ pc' = [pc EXCEPT ![c] = "wait"]
                 /\ UNCHANGED <<retry, exchange, promise, attempts, result,
                                http2Session, session, lcp>>
            ELSE /\ Rejected(c, e, <<>>)
                 /\ UNCHANGED <<retry, errorTrace, exchange, promise, attempts,
                                http2Session, session, lcp>>

\* await wait(options.retryDelay) returned: the next turn of the loop.
RetryDelayElapsed(c) ==
  /\ ~crashed
  /\ pc[c] = "wait"
  /\ Iterate(c, retry[c], errorTrace[c])
  /\ UNCHANGED <<impl, sessionVars, constVars, sink, errorTrace, outcomes>>

\* ------------------------------------------ the request of a verb shortcut
\* connect(a) has completed (a = <<>>: connect() without an argument): the
\* origin becomes the base and the path the stored prefix; part_000_b stores
\* the origin as the authority.
ConnectCompleted(a) ==
  LET cfg == dispatch.config
      url == ParseUrl(CASE a # <<>> -> a
                        [] a = <<>> /\ impl = "part_000_b" /\ cfg.authority # <<>> -> cfg.authority
                        [] OTHER -> cfg.base)
  IN
  /\ dispatch.state = "new"
  /\ url.ok
  /\ dispatch' = [dispatch EXCEPT
        !.state  = "connected",
        !.config = IF impl = "part_000_b"
                   THEN [cfg EXCEPT !.authority = <<url.origin>>]
                   ELSE [cfg EXCEPT !.base = <<url.origin>>, !.url = url.path]]
  /\ UNCHANGED <<impl, pc, sessionVars, options, retry, errorTrace, exchange, promise,
                 attempts, outcomes, sink, result>>

\* reconnect() on the connected engine has completed: close(), then connect()
\* without an argument, which parses the stored base (part_000:430-448) or the
\* stored authority (part_000:1251-1276) again. before keeps the config the
\* preceding connect left.
ReconnectCompleted ==
  LET cfg == dispatch.config
      url == ParseUrl(IF impl = "part_000_b" /\ cfg.authority # <<>> THEN cfg.authority
                                                                     ELSE cfg.base)
  IN
  /\ impl # "index_js"
  /\ dispatch.state = "connected"
  /\ ~dispatch.reconnected
  /\ url.ok
  /\ dispatch' = [dispatch EXCEPT
        !.reconnected = TRUE,
        !.before      = cfg,
        !.config      = IF impl = "part_000_b"
                        THEN [cfg EXCEPT !.authority = <<url.origin>>]
                        ELSE [cfg EXCEPT !.base = <<url.origin>>, !.url = url.path]]
  /\ UNCHANGED <<impl, pc, sessionVars, options, retry, errorTrace, exchange, promise,
                 attempts, outcomes, sink, result>>

\* get, post, ... called with { url: u, method: ownMethod, headers: hdrs, body }
\* and, with upstream, a source stream: the merge of the options, and the
\* headers, the body, the framing and the URL of the first attempt. body.length
\* of an undefined body and new URL of an invalid URL throw in the executor of
\* #resolve: the attempt is rejected, nothing is sent.
VerbShortcut(verb, ownMethod, u, hdrs, body, upstream) ==
  LET target  == TargetUrl(impl, dispatch.config, u)
      headers == NormalizeHeaders(hdrs)
      text    == NormalizeBody(body, Get(headers, "content-type"))
      framing == Framing(impl, text, upstream, dispatch.state = "connected")
  IN
  /\ dispatch.state \in {"new", "connected"}
  /\ dispatch' = [dispatch EXCEPT
        !.state      = IF framing.ok /\ target.ok THEN "sent" ELSE "failed",
        !.upstream   = upstream,
        !.via        = IF dispatch.state = "connected" THEN "h2" ELSE "h1",
        !.framing    = framing,
        !.verb       = verb,
        !.ownMethod  = ownMethod,
        !.ownUrl     = u,
        !.ownHeaders = hdrs,
        !.ownBody    = body,
        !.method     = MergedMethod(impl, verb, dispatch.config.method, ownMethod),
        !.headers    = headers,
        !.body       = text,
        !.target     = target]
  /\ UNCHANGED <<impl, pc, sessionVars, options, retry, errorTrace, exchange, promise,
                 attempts, outcomes, sink, result>>

\* 'end' of the response to the request of the shortcut, an event stream of the
\* lines ls: #onStreamEnd.
EventStreamEnd(ls) ==
  /\ dispatch.state = "sent"
  /\ dispatch' = [dispatch EXCEPT
        !.state    = "ended",
        !.received = ls,
        !.decoded  = OnStreamEndEventStream(impl, TextOf(ls))]
  /\ UNCHANGED <<impl, pc, sessionVars, options, retry, errorTrace, exchange, promise,
                 attempts, outcomes, sink, result>>

\* -------------------------------------- connect, close, reconnect: the awaits
\* reconnect(): await this.close() returned; connect() starts with its own close().
ReconnectClosed(t) ==
  /\ ~crashed
  /\ pc[t] = "rc_close"
  /\ lcp[t] = "resolved"
  /\ CloseCall(t)
  /\ pc' = [pc EXCEPT ![t] = "cn_close"]
  /\ UNCHANGED <<impl, crashed, callVars>>

\* connect(): await this.close() returned; the session is created.
ConnectClosed(t) ==
  /\ ~crashed
  /\ pc[t] = "cn_close"
  /\ lcp[t] = "resolved"
  /\ ConnectCreate(t)
  /\ pc' = [pc EXCEPT ![t] = "cn_wait"]
  /\ UNCHANGED <<impl, crashed, callVars>>

\* A faulty reconnect: the session failure is not recorded.
ReconnectDoneUnrecorded(c) ==
  /\ ~crashed
  /\ c \in Calls
  /\ pc[c] = "cn_wait"
  /\ lcp[c] = "resolved"
  /\ UNCHANGED errorTrace
  /\ pc' = [pc EXCEPT ![c] = "wait"]
  /\ lcp' = [lcp EXCEPT ![c] = "none"]
  /\ UNCHANGED <<impl, crashed, http2Session, session, constVars, sink, retry, exchange, promise,
                 attempts, outcomes, result>>

\* #resolveRetryLoopError: await this.reconnect() returned; the session failure
\* is recorded and the loop goes on to its delay.
ReconnectDone(c) ==
  /\ ~crashed
  /\ c \in Calls
  /\ pc[c] = "cn_wait"
  /\ lcp[c] = "resolved"
  /\ errorTrace' = [errorTrace EXCEPT ![c] = Append(@, promise[c])]
  /\ pc' = [pc EXCEPT ![c] = "wait"]
  /\ lcp' = [lcp EXCEPT ![c] = "none"]
  /\ UNCHANGED <<impl, crashed, http2Session, session, constVars, sink, retry, exchange, promise,
                 attempts, outcomes, result>>

\* #resolveRetryLoopError: await this.reconnect() threw; the catch block builds
\* the reconnect error and throws the reason it caught.
ReconnectFailed(c) ==
  /\ ~crashed
  /\ c \in Calls
  /\ pc[c] = "cn_wait"
  /\ IsRejected(lcp[c])
  /\ Rejected(c, Failure(lcp[c], 0, "reason", attempts[c]), <<>>)
  /\ lcp' = [lcp EXCEPT ![c] = "none"]
  /\ UNCHANGED <<impl, crashed, http2Session, session, constVars, sink, retry, errorTrace,
                 exchange, promise, attempts, outcomes>>

\* A caller of the engine calls close(), connect() or reconnect(), once.
UserClose(u) ==
  /\ ~crashed
  /\ pc[u] = "ready"
  /\ CloseCall(u)
  /\ pc' = [pc EXCEPT ![u] = "cl_close"]
  /\ UNCHANGED <<impl, crashed, callVars>>

UserConnect(u) ==
  /\ ~crashed
  /\ pc[u] = "ready"
  /\ CloseCall(u)
  /\ pc' = [pc EXCEPT ![u] = "cn_close"]
  /\ UNCHANGED <<impl, crashed, callVars>>

UserReconnect(u) ==
  /\ ~crashed
  /\ impl # "index_js"
  /\ pc[u] = "ready"
  /\ CloseCall(u)
  /\ pc' = [pc EXCEPT ![u] = "rc_close"]
  /\ UNCHANGED <<impl, crashed, callVars>>

\* The promise of the caller's close() or connect() settled.
UserSettled(u) ==
  /\ ~crashed
  /\ pc[u] \in {"cl_close", "cn_wait"}
  /\ lcp[u] = "resolved" \/ IsRejected(lcp[u])
  /\ pc' = [pc EXCEPT ![u] = "done"]
  /\ lcp' = [lcp EXCEPT ![u] = "none"]
  /\ UNCHANGED <<impl, crashed, http2Session, session, callVars>>

\* ------------------------------------------------- events of a session
\* 'connect': the listener connect() passed to http2.connect.
SessionConnected(x) ==
  LET t == session[x].connectCb
  IN
  /\ ~crashed
  /\ session[x].state = "connecting"
  /\ IF t # 0 /\ http2Session = 0
     THEN \* this.http2Session.off / removeAllListeners on undefined
          /\ crashed' = TRUE
          /\ session' = [session EXCEPT ![x].state = "open", ![x].connectCb = 0]
          /\ UNCHANGED <<http2Session, lcp>>
     ELSE /\ session' = [y \in Sids |->
               LET a == IF y = x
                        THEN [session[y] EXCEPT !.state = "open", !.connectCb = 0]
                        ELSE session[y]
               IN  IF t # 0 /\ y = http2Session
                      /\ (impl # "index_js" \/ a.errorCb = t)
                   THEN [a EXCEPT !.errorCb = IF impl = "index_js" THEN 0 ELSE Console]
                   ELSE a]
          /\ lcp' = IF t # 0 THEN [lcp EXCEPT ![t] = "resolved"] ELSE lcp
          /\ UNCHANGED <<http2Session, crashed>>
  /\ UNCHANGED <<impl, pc, callVars>>

\* 'error' while the session connects: the once('error') listener of connect(),
\* an uncaught exception when there is none. The session is destroyed.
SessionConnectError(x) ==
  LET t == session[x].errorCb
  IN
  /\ ~crashed
  /\ session[x].state = "connecting"
  /\ session' = [session EXCEPT ![x].state = "destroyed",
                                ![x].errorCb = IF t = Console THEN Console ELSE 0]
  /\ CASE t = 0       -> crashed' = TRUE /\ UNCHANGED lcp
       [] t = Console -> UNCHANGED <<lcp, crashed>>
       [] OTHER       -> lcp' = [lcp EXCEPT ![t] = ConnectRejection(impl)] /\ UNCHANGED crashed
  /\ UNCHANGED <<impl, pc, http2Session, callVars>>

\* The server sends GOAWAY: node closes the session gracefully.
SessionGoaway(x) ==
  /\ ~crashed
  /\ session[x].state = "open"
  /\ session' = [session EXCEPT ![x].state = "closing"]
  /\ UNCHANGED <<impl, pc, http2Session, lcp, crashed, callVars>>

\* The session is destroyed: its socket ended, or its graceful close completed.
SessionDestroy(x) ==
  /\ ~crashed
  /\ session[x].state \in {"open", "closing"}
  /\ session' = [session EXCEPT ![x].state = "destroyed"]
  /\ UNCHANGED <<impl, pc, http2Session, lcp, crashed, callVars>>

\* 'close' of a destroyed session: the 'close' listener of connect() (index.js),
\* then the callbacks close() passed to session.close.
SessionCloseEvent(x) ==
  LET cbs  == session[x].closeCbs
      gone == [NoSession EXCEPT !.state = "gone"]
  IN
  /\ ~crashed
  /\ session[x].state = "destroyed"
  /\ IF session[x].onClose /\ http2Session = 0
     THEN \* this.http2Session.removeAllListeners() on undefined
          /\ crashed' = TRUE
          /\ session' = [session EXCEPT ![x] = gone]
          /\ UNCHANGED <<http2Session, lcp>>
     ELSE /\ session' = [y \in Sids |->
               IF y = x THEN gone
               ELSE IF session[x].onClose /\ y = http2Session
                    THEN RemoveAllListeners(session[y])
                    ELSE session[y]]
          /\ http2Session' =
               IF session[x].onClose \/ (impl # "index_js" /\ cbs # {})
               THEN 0 ELSE http2Session
          /\ lcp' = [t \in Threads |-> IF t \in cbs THEN "resolved" ELSE lcp[t]]
          /\ UNCHANGED crashed
  /\ UNCHANGED <<impl, pc, callVars>>

\* ------------------------------------------------------- specifications
\* The retry values (as 2*r): -1.5, -1, -0.5, 0, 0.5, 1, 1.5, 2, ..., MaxAttempts.
RetryValues ==
  {h \in (-3)..(2 * MaxAttempts) : h % 2 = 0 \/ MathAbs(h) <= 3}

\* The attempts a call may make: those of the loop, or the one #resolve of #fetch.
AttemptBudget(i, h) == IF h = 0 THEN 1 ELSE InitialRetry(i, h)

OptionSpace ==
  [retry                            : RetryValues,
   retryOnStatus                    : {{}, {RetryableStatus}},
   retryOnErrorResponseStatus       : BOOLEAN,
   retryOnClientTimeout             : BOOLEAN,
   retryOnDownstreamError           : {FALSE},
   retryOnInvalidResponseBodyFormat : BOOLEAN,
   doNotThrowOnErrorStatus          : BOOLEAN,
   doNotThrowOnRedirectStatus       : BOOLEAN,
   downstream                       : {FALSE}]

\* The options of a call that sets only retry, to the value that starts the
\* loop counter of variant i at 2.
PlainOptions(i) ==
  [retry                            |-> IF i = "part_000_a" THEN 2 ELSE 4,
   retryOnStatus                    |-> {},
   retryOnErrorResponseStatus       |-> FALSE,
   retryOnClientTimeout             |-> FALSE,
   retryOnDownstreamError           |-> FALSE,
   retryOnInvalidResponseBodyFormat |-> FALSE,
   doNotThrowOnErrorStatus          |-> FALSE,
   doNotThrowOnRedirectStatus       |-> FALSE,
   downstream                       |-> FALSE]

\* An engine after construction, or after one connect() that has completed.
InitEngine ==
  /\ impl \in Impls
  /\ crashed = FALSE
  /\ \E connected \in BOOLEAN :
       /\ http2Session = IF connected THEN 1 ELSE 0
       /\ session = [x \in Sids |->
            IF connected /\ x = 1
            THEN [NoSession EXCEPT !.state = "open", !.onClose = (impl = "index_js"),
                                   !.errorCb = IF impl = "index_js" THEN 0 ELSE Console]
            ELSE NoSession]
  /\ lcp = [t \in Threads |-> "none"]
  /\ retry = [c \in Calls |-> 0]
  /\ errorTrace = [c \in Calls |-> <<>>]
  /\ exchange = [c \in Calls |-> NoExchange]
  /\ promise = [c \in Calls |-> NoValue]
  /\ attempts = [c \in Calls |-> 0]
  /\ outcomes = [c \in Calls |-> <<>>]
  /\ sink = [c \in Calls |-> NoSink]
  /\ result = [c \in Calls |-> NoResult]

\* One call, with any options; nobody else uses the engine.
Init ==
  /\ InitEngine
  /\ \E o \in OptionSpace :
       /\ AttemptBudget(impl, o.retry) <= MaxAttempts
       /\ options = [c \in Calls |-> IF c = 1 THEN o ELSE PlainOptions(impl)]
  /\ pc = [t \in Threads |-> IF t = 1 THEN "idle" ELSE "off"]
  /\ dispatch = NoDispatch

\* One call that may have a downstream sink; nobody else uses the engine.
SinkOptionSpace ==
  [retry                            : {0, 4},
   retryOnStatus                    : {{}},
   retryOnErrorResponseStatus       : BOOLEAN,
   retryOnClientTimeout             : {FALSE},
   retryOnDownstreamError           : {FALSE},
   retryOnInvalidResponseBodyFormat : {FALSE},
   doNotThrowOnErrorStatus          : BOOLEAN,
   doNotThrowOnRedirectStatus       : {FALSE},
   downstream                       : BOOLEAN]

InitSink ==
  /\ InitEngine
  /\ \E o \in SinkOptionSpace :
       options = [c \in Calls |-> IF c = 1 THEN o ELSE PlainOptions(impl)]
  /\ pc = [t \in Threads |-> IF t = 1 THEN "idle" ELSE "off"]
  /\ dispatch = NoDispatch

\* The strings the config, connect and the calls are given.
ConfigBases == {<<>>, <<"http://h">>, <<"http://h", "/", "v1", "/">>}
Authorities == {<<>>, <<"http://h">>, <<"http://h", "/", "v1">>, <<"http://h", "/", "v1", "/">>}
CallUrls    == {<<>>, <<"/", "a">>, <<"a">>, <<"http://o", "/", "a">>, <<"http://o">>}

\* The headers and the bodies the calls are given: up to MaxHeaders headers
\* with different names, and a body of each type.
HeaderInputs ==
  {h \in UNION {[1..n -> HeaderNames \X ContentTypes] : n \in 0..MaxHeaders} :
     \A j, k \in 1..Len(h) : j # k => h[j][1] # h[k][1]}
BodyInputs ==
  {NoBody, StringBody("test body"), StringBody("{}"), StringBody(""), StringBody("U+00E9"),
   ObjectBody(<<>>), ObjectBody(<<<<"bar", "baz">>>>),
   ObjectBody(<<<<"bar", "baz">>, <<"n", "1">>>>)}

\* An engine constructed with a config; no call is in flight.
InitDispatch ==
  /\ InitEngine
  /\ http2Session = 0
  /\ options = [c \in Calls |-> PlainOptions(impl)]
  /\ pc = [t \in Threads |-> "off"]
  /\ \E base \in ConfigBases, m \in MethodValues :
       dispatch = [NoDispatch EXCEPT !.state = "new", !.config.base = base,
                                     !.config.method = m]

\* One call with the flags that gate a timeout and a status, on an engine whose
\* session may be closed or destroyed at any moment.
CallOptionSpace ==
  [retry                            : {0, 4},
   retryOnStatus                    : {{}, {RetryableStatus}},
   retryOnErrorResponseStatus       : {FALSE},
   retryOnClientTimeout             : BOOLEAN,
   retryOnDownstreamError           : BOOLEAN,
   retryOnInvalidResponseBodyFormat : {FALSE},
   doNotThrowOnErrorStatus          : {FALSE},
   doNotThrowOnRedirectStatus       : {FALSE},
   downstream                       : {FALSE}]

InitCall ==
  /\ InitEngine
  /\ \E o \in CallOptionSpace :
       options = [c \in Calls |-> IF c = 1 THEN o ELSE PlainOptions(impl)]
  /\ pc = [t \in Threads |-> IF t = 1 THEN "idle" ELSE "off"]
  /\ dispatch = NoDispatch

\* All the calls at once, with a timeout that is retried or not.
InitTimeout ==
  /\ InitEngine
  /\ \E r \in BOOLEAN :
       options = [c \in Calls |-> [PlainOptions(impl) EXCEPT !.retryOnClientTimeout = r]]
  /\ pc = [t \in Threads |-> IF t \in Calls THEN "idle" ELSE "off"]
  /\ dispatch = NoDispatch

\* MaxActive of the calls and the callers of connect / close / reconnect use the
\* engine; the calls have plain options.
InitSession ==
  /\ InitEngine
  /\ options = [c \in Calls |-> PlainOptions(impl)]
  /\ dispatch = NoDispatch
  /\ \E active \in SUBSET Threads :
       /\ Cardinality(active) = IF MaxActive < Cardinality(Threads)
                                THEN MaxActive ELSE Cardinality(Threads)
       /\ pc = [t \in Threads |-> IF t \notin active THEN "off"
                                  ELSE IF t \in Calls THEN "idle" ELSE "ready"]

\* The callers of connect / close / reconnect use the engine, no call does.
InitLifecycle ==
  /\ InitEngine
  /\ options = [c \in Calls |-> PlainOptions(impl)]
  /\ dispatch = NoDispatch
  /\ pc = [t \in Threads |-> IF t \in Calls THEN "off" ELSE "ready"]

Next ==
  \/ \E c \in Calls : Fetch(c)
  \/ \E c \in Calls : ClientErrorEvent(c)
  \/ \E c \in Calls : ConnectionClosed(c)
  \/ \E c \in Calls, n \in 1..MaxAttempts : ClientTimeoutEvent(c, n)
  \/ \E c \in Calls, status \in Statuses : ResponseEvent(c, status)
  \/ \E c \in Calls, body \in Bodies : StreamEndEvent(c, body)
  \/ \E c \in Calls : AttemptResolved(c)
  \/ \E c \in Calls : AttemptRejected(c)
  \/ \E c \in Calls : RetryDelayElapsed(c)

NextSink ==
  \/ \E c \in Calls : Fetch(c)
  \/ \E c \in Calls : ClientErrorEvent(c)
  \/ \E c \in Calls, status \in Statuses : ResponseEvent(c, status)
  \/ \E c \in Calls, body \in Bodies : StreamEndEvent(c, body)
  \/ \E c \in Calls : AttemptResolved(c)
  \/ \E c \in Calls : AttemptRejected(c)
  \/ \E c \in Calls : RetryDelayElapsed(c)
  \/ \E c \in Calls, n \in 1..MaxAttempts : DownstreamFinished(c, n)
  \/ \E c \in Calls, n \in 1..MaxAttempts : DownstreamAborted(c, n)

NextDispatch ==
  \/ \E a \in Authorities : ConnectCompleted(a)
  \/ \E verb \in Verbs, m \in MethodValues, u \in CallUrls :
       VerbShortcut(verb, m, u, <<>>, NoBody, FALSE)

\* connect, reconnect, and a get to any URL.
NextReconnect ==
  \/ \E a \in Authorities : ConnectCompleted(a)
  \/ ReconnectCompleted
  \/ \E u \in CallUrls : VerbShortcut("GET", "", u, <<>>, NoBody, FALSE)

\* A post to one URL with any headers and any body.
NextMessage ==
  \/ \E a \in Authorities : ConnectCompleted(a)
  \/ \E hdrs \in HeaderInputs, body \in BodyInputs, upstream \in BOOLEAN :
       VerbShortcut("POST", "", <<"/", "a">>, hdrs, body, upstream)

\* The bodies of the event streams: up to MaxLines lines.
EventStreamInputs == UNION {[1..n -> Lines] : n \in 0..MaxLines}

\* A get that is answered with an event stream.
NextEventStream ==
  \/ VerbShortcut("GET", "", <<"/", "a">>, <<>>, NoBody, FALSE)
  \/ \E ls \in EventStreamInputs : EventStreamEnd(ls)

NextCall ==
  \/ \E c \in Calls : Fetch(c)
  \/ \E c \in Calls : ClientErrorEvent(c)
  \/ \E c \in Calls : ConnectionClosed(c)
  \/ \E c \in Calls, n \in 1..MaxAttempts : ClientTimeoutEvent(c, n)
  \/ \E c \in Calls, status \in {200, RetryableStatus} : ResponseEvent(c, status)
  \/ \E c \in Calls : StreamEndEvent(c, "text")
  \/ \E c \in Calls : LateClose(c)
  \/ \E c \in Calls : StreamErrorEvent(c)
  \/ \E c \in Calls : AttemptResolved(c)
  \/ \E c \in Calls : AttemptRejected(c)
  \/ \E c \in Calls : RetryDelayElapsed(c)
  \/ \E t \in Threads : ReconnectClosed(t)
  \/ \E t \in Threads : ConnectClosed(t)
  \/ \E c \in Calls : ReconnectDone(c)
  \/ \E c \in Calls : ReconnectFailed(c)
  \/ \E x \in Sids : SessionConnected(x)
  \/ \E x \in Sids : SessionConnectError(x)
  \/ \E x \in Sids : SessionGoaway(x)
  \/ \E x \in Sids : SessionDestroy(x)
  \/ \E x \in Sids : SessionCloseEvent(x)

NextTimeout ==
  \/ \E c \in Calls : Fetch(c)
  \/ \E c \in Calls, n \in 1..MaxAttempts : ClientTimeoutEvent(c, n)
  \/ \E c \in Calls : ResponseEvent(c, 200)
  \/ \E c \in Calls : StreamEndEvent(c, "text")
  \/ \E c \in Calls : LateClose(c)
  \/ \E c \in Calls : AttemptResolved(c)
  \/ \E c \in Calls : AttemptRejected(c)
  \/ \E c \in Calls : RetryDelayElapsed(c)

NextSession ==
  \/ \E c \in Calls : Fetch(c)
  \/ \E c \in Calls : ConnectionClosed(c)
  \/ \E c \in Calls : ResponseEvent(c, 200)
  \/ \E c \in Calls : StreamEndEvent(c, "text")
  \/ \E c \in Calls : AttemptResolved(c)
  \/ \E c \in Calls : AttemptRejected(c)
  \/ \E c \in Calls : RetryDelayElapsed(c)
  \/ \E t \in Threads : ReconnectClosed(t)
  \/ \E t \in Threads : ConnectClosed(t)
  \/ \E c \in Calls : ReconnectDone(c)
  \/ \E c \in Calls : ReconnectFailed(c)
  \/ \E x \in Sids : SessionConnected(x)
  \/ \E x \in Sids : SessionConnectError(x)
  \/ \E x \in Sids : SessionGoaway(x)
  \/ \E x \in Sids : SessionDestroy(x)
  \/ \E x \in Sids : SessionCloseEvent(x)
  \/ \E u \in Users : UserClose(u)
  \/ \E u \in Users : UserConnect(u)
  \/ \E u \in Users : UserReconnect(u)
  \/ \E u \in Users : UserSettled(u)

NextLifecycle ==
  \/ \E t \in Threads : ReconnectClosed(t)
  \/ \E t \in Threads : ConnectClosed(t)
  \/ \E x \in Sids : SessionConnected(x)
  \/ \E x \in Sids : SessionConnectError(x)
  \/ \E x \in Sids : SessionGoaway(x)
  \/ \E x \in Sids : SessionDestroy(x)
  \/ \E x \in Sids : SessionCloseEvent(x)
  \/ \E u \in Users : UserClose(u)
  \/ \E u \in Users : UserConnect(u)
  \/ \E u \in Users : UserReconnect(u)
  \/ \E u \in Users : UserSettled(u)

\* What the event loop and the transport are taken to do in the end: a session
\* that connects emits 'connect' or 'error', a session that was closed and has
\* no stream left is destroyed, a destroyed session emits 'close', and a
\* continuation whose promise has settled is run.
FairLifecycle ==
  /\ \A x \in Sids : WF_vars(SessionConnected(x) \/ SessionConnectError(x))
  /\ \A x \in Sids : WF_vars(session[x].state = "closing" /\ SessionDestroy(x))
  /\ \A x \in Sids : WF_vars(SessionCloseEvent(x))
  /\ \A t \in Threads : WF_vars(ReconnectClosed(t) \/ ConnectClosed(t))
  /\ \A u \in Users : WF_vars(UserSettled(u))

Spec        == Init /\ [][Next]_vars
SpecLifecycle == InitLifecycle /\ [][NextLifecycle]_vars /\ FairLifecycle
SpecSession == InitSession /\ [][NextSession]_vars
SpecSink    == InitSink /\ [][NextSink]_vars
SpecCall    == InitCall /\ [][NextCall]_vars
SpecTimeout == InitTimeout /\ [][NextTimeout]_vars
SpecEventStream == InitDispatch /\ [][NextEventStream]_vars
SpecReconnect == InitDispatch /\ [][NextReconnect]_vars
SpecDispatch == InitDispatch /\ [][NextDispatch]_vars
SpecMessage  == InitDispatch /\ [][NextMessage]_vars

\* ------------------------------------------------------------ properties
\* The attempt budget the specification gives a retry value (as 2*r):
\* max(1, floor(abs(r))).
SpecBudget(h) ==
  LET n == MathFloor(MathAbs(h)) IN IF n < 1 THEN 1 ELSE n

\* The attempts the engine's loop makes for the options of call c.
Budget(c) == AttemptBudget(impl, options[c].retry)

IsError(v, code) == v.kind = "error" /\ v.code = code
IsOk(v)          == v.kind = "response" /\ v.status = 200

\* The status is declared retryable by the options.
DeclaredRetryable(o, status) ==
  o.retryOnErrorResponseStatus \/ status \in o.retryOnStatus

\* The classification of the specification: the failure may be retried.
Retryable(o, e) ==
  \/ IsError(e, CLIENT_ERROR)
  \/ IsError(e, CLIENT_TIMEOUT) /\ o.retryOnClientTimeout
  \/ IsError(e, INVALID_BODY_FORMAT) /\ o.retryOnInvalidResponseBodyFormat
  \/ IsError(e, INVALID_STATUS) /\ DeclaredRetryable(o, e.status)

\* Call c has settled after at least one attempt.
Finished(c) == pc[c] = "done" /\ outcomes[c] # <<>>

\* Call c was rejected with the failure e of one of its attempts.
RejectedWith(c, e) ==
  /\ pc[c] = "done"
  /\ result[c].how = "rejected"
  /\ [result[c].value EXCEPT !.outer = ""] = e

\* Call c resolved with the response v of its attempt number n.
ResolvedWith(c, v, n) ==
  /\ pc[c] = "done"
  /\ result[c].how = "resolved"
  /\ result[c].value = v
  /\ v.from = n
  /\ attempts[c] = n

\* The attempts of call c before the last all failed with this kind of failure.
EarlierAll(c, code) ==
  \A j \in 1..(Len(outcomes[c]) - 1) : IsError(outcomes[c][j], code)

\* C1: a call whose retry value r is not zero makes at most max(1, floor(abs(r)))
\* attempts, and exactly that many when every attempt fails with a retryable
\* failure.
C1_AttemptBudget ==
  \A c \in Calls :
    options[c].retry # 0 =>
      /\ attempts[c] <= SpecBudget(options[c].retry)
      /\ ( /\ pc[c] = "done"
           /\ \A j \in 1..Len(outcomes[c]) : Retryable(options[c], outcomes[c][j]) )
         => attempts[c] = SpecBudget(options[c].retry)

\* C2: a ClientError is retried without any flag: a call ends on a ClientError
\* only when its budget is used up, and after ClientErrors on the first k
\* attempts and a 200 on the next it resolves with that response after exactly
\* k+1 attempts, on either transport.
C2_ClientErrorRetried ==
  \A c \in Calls :
    Finished(c) =>
      LET n    == Len(outcomes[c])
          last == outcomes[c][n]
      IN  /\ IsError(last, CLIENT_ERROR) => n = Budget(c) /\ RejectedWith(c, last)
          /\ EarlierAll(c, CLIENT_ERROR) /\ IsOk(last) => ResolvedWith(c, last, n)

C2_Witness ==
  /\ options[1].retry = 6
  /\ exchange[1].via = "h2"
  /\ Len(outcomes[1]) = 3
  /\ IsError(outcomes[1][1], CLIENT_ERROR)
  /\ IsError(outcomes[1][2], CLIENT_ERROR)
  /\ IsOk(outcomes[1][3])
  /\ ResolvedWith(1, outcomes[1][3], 3)

C4_DeclaredStatusRetried ==
  \A c \in Calls :
    Finished(c) =>
      LET n    == Len(outcomes[c])
          last == outcomes[c][n]
      IN  /\ IsError(last, INVALID_STATUS) /\ DeclaredRetryable(options[c], last.status)
               => n = Budget(c) /\ RejectedWith(c, last)
          /\ ( /\ IsOk(last)
               /\ \A j \in 1..(n - 1) :
                    /\ IsError(outcomes[c][j], INVALID_STATUS)
                    /\ DeclaredRetryable(options[c], outcomes[c][j].status) )
             => ResolvedWith(c, last, n)

C4_Witness ==
  /\ options[1].retry = 6
  /\ options[1].retryOnStatus = {RetryableStatus}
  /\ ~options[1].retryOnErrorResponseStatus
  /\ Len(outcomes[1]) = 3
  /\ \A j \in 1..2 : IsError(outcomes[1][j], INVALID_STATUS)
                     /\ outcomes[1][j].status = RetryableStatus
  /\ IsOk(outcomes[1][3])
  /\ outcomes[1][3].body = "parsed"
  /\ ResolvedWith(1, outcomes[1][3], 3)

C7_BodyFormatRetriedOnlyOnFlag ==
  \A c \in Calls :
    /\ exchange[c].state = "ended" /\ exchange[c].body = "json_bad" =>
         \/ IsError(promise[c], INVALID_BODY_FORMAT)
         \/ IsError(promise[c], INVALID_STATUS) /\ promise[c].cause = INVALID_BODY_FORMAT
    /\ exchange[c].state = "ended" /\ exchange[c].body = "json_bad"
         /\ exchange[c].status < 300 => IsError(promise[c], INVALID_BODY_FORMAT)
    /\ IsError(promise[c], INVALID_BODY_FORMAT) =>
         exchange[c].state = "ended" /\ exchange[c].body = "json_bad"
    /\ \A j \in 1..Len(outcomes[c]) :
         IsError(outcomes[c][j], INVALID_BODY_FORMAT)
           /\ ~options[c].retryOnInvalidResponseBodyFormat
         => attempts[c] = j /\ RejectedWith(c, outcomes[c][j])
    /\ Finished(c) /\ options[c].retryOnInvalidResponseBodyFormat =>
         LET n    == Len(outcomes[c])
             last == outcomes[c][n]
         IN  /\ IsError(last, INVALID_BODY_FORMAT) => n = Budget(c) /\ RejectedWith(c, last)
             /\ EarlierAll(c, INVALID_BODY_FORMAT) /\ IsOk(last) => ResolvedWith(c, last, n)

C7_Witness ==
  /\ options[1].retry = 6
  /\ options[1].retryOnInvalidResponseBodyFormat
  /\ Len(outcomes[1]) = 3
  /\ IsError(outcomes[1][1], INVALID_BODY_FORMAT)
  /\ IsError(outcomes[1][2], INVALID_BODY_FORMAT)
  /\ IsOk(outcomes[1][3])
  /\ outcomes[1][3].body = "parsed"
  /\ exchange[1].body = "json_ok"
  /\ ResolvedWith(1, outcomes[1][3], 3)

\* C8: the status alone decides the gate: an attempt whose response was read to
\* its end fails with InvalidResponseStatus exactly when the status is >= 400
\* and doNotThrowOnErrorStatus is unset, or the status is in [300, 400) and
\* doNotThrowOnRedirectStatus is unset; a status < 300 never fails it.
C8_ThrowPolicyGate ==
  \A c \in Calls :
    exchange[c].state = "ended" =>
      LET status == exchange[c].status
          failed == IsError(promise[c], INVALID_STATUS)
      IN  /\ status >= 400 => (failed <=> ~options[c].doNotThrowOnErrorStatus)
          /\ status >= 300 /\ status < 400
               => (failed <=> ~options[c].doNotThrowOnRedirectStatus)
          /\ status < 300 => ~failed

C8_Witness ==
  /\ exchange[1].state = "ended"
  /\ exchange[1].status = 302
  /\ options[1].doNotThrowOnRedirectStatus
  /\ ~options[1].doNotThrowOnErrorStatus
  /\ promise[1].kind = "response"
  /\ promise[1].status = 302

\* C9: an attempt that starts while the session the engine refers to is
\* destroyed or closed fails at once with SessionDestroyed or SessionClosed, and
\* sends no request on any transport.
C9_DeadSessionFailsFast ==
  \A c \in Calls :
    exchange[c].dead # "" =>
      /\ exchange[c].state = "none"
      /\ exchange[c].via = "none"
      /\ IsError(promise[c], IF exchange[c].dead = "destroyed"
                             THEN SESSION_DESTROYED ELSE SESSION_CLOSED)

\* C10: at most one session of an engine instance is live (connecting or open)
\* at any time, whatever connect, close and reconnect operations interleave,
\* those the retry loops of concurrent calls start included.
C10_AtMostOneLiveSession ==
  Cardinality({x \in Sids : IsLive(session[x])}) <= 1

\* Nobody but thread t has used the engine so far.
Alone(t) == \A t2 \in Threads \ {t} : pc[t2] \in {"off", "idle", "ready"}

\* C11: when the promise of a close() has resolved the engine holds no session
\* (so that a second close() finds nothing to close), also when nobody else
\* uses the engine.
C11_CloseReleasesSession ==
  \A u \in Users :
    pc[u] = "cl_close" /\ lcp[u] = "resolved" /\ Alone(u) => http2Session = 0

\* C12: a connect() whose session failed before it was connected has rejected
\* with a ConnectError: it is not left pending and it has not rejected with the
\* error of the transport. (Stated for a connect() that nobody interferes with.)
C12_ConnectFailureIsConnectError ==
  \A t \in Threads, x \in Sids :
    /\ pc[t] = "cn_wait"
    /\ Alone(t)
    /\ session[x].state = "destroyed"
    /\ session[x].connectCb = t
    => lcp[t] = CONNECT_ERROR

Range(f) == {f[k] : k \in DOMAIN f}

\* Call c was given a downstream sink.
HasSink(c) == options[c].downstream

\* C13: when a response passes the throw-policy gate and the call has a
\* downstream sink, the response is piped to the sink, the attempt resolves at
\* the response event, whether the sink has finished or not, and the Response
\* the attempt and the call resolve with has no body.
C13_DownstreamResolvesAtHeaders ==
  \A c \in Calls :
    /\ exchange[c].state = "piped" =>
         /\ HasSink(c) /\ ~ThrowOnStatus(options[c], exchange[c].status)
         /\ attempts[c] \in Range(sink[c].pipes)
         /\ promise[c].kind = "response"
         /\ promise[c].status = exchange[c].status
         /\ promise[c].body = ""
    /\ pc[c] = "done" /\ result[c].how = "resolved" /\ HasSink(c)
                      /\ result[c].value.kind = "response" =>
         /\ result[c].value.body = ""
         /\ result[c].value.from \in Range(sink[c].pipes)

\* The call has resolved with the piped response while the sink is still being
\* written to.
C13_Witness ==
  \E c \in Calls :
    /\ HasSink(c)
    /\ ResolvedWith(c, PipedResponse(200, 1), 1)
    /\ 1 \in sink[c].flowing
    /\ ~sink[c].finished

\* Call c has resolved with a Response.
ResolvedOk(c) ==
  pc[c] = "done" /\ result[c].how = "resolved" /\ result[c].value.kind = "response"

\* The sink of call c was ended and has drained all it was given.
Drained(c) == HasSink(c) /\ sink[c].finished /\ sink[c].flowing = {}

\* C14 as stated: once a call has resolved with a Response, exactly one of the
\* two holds: the Response has a body, or the downstream sink has drained. (The
\* sink never goes back, so a call that violates this in some state violated it
\* when it resolved.)
C14_BodyOrDrainedSink ==
  \A c \in Calls :
    ResolvedOk(c) => ((result[c].value.body # "") # Drained(c))

\* C14 amended: once a call has resolved with a Response, exactly one of the two
\* holds: the Response has a body, or the response was piped to the downstream
\* sink; whether the sink has drained, or ever will, is not settled then.
C14_BodyOrPipedToSink ==
  \A c \in Calls :
    /\ ResolvedOk(c) =>
         ((result[c].value.body # "") # (HasSink(c) /\ result[c].value.from \in Range(sink[c].pipes)))
    /\ ~HasSink(c) => sink[c] = NoSink

\* The call resolved with the piped response, and the sink was left unfinished
\* when the response was cut.
C14_Witness ==
  \E c \in Calls :
    /\ ResolvedOk(c)
    /\ result[c].value.body = ""
    /\ sink[c].pipes = <<1>>
    /\ sink[c].flowing = {}
    /\ ~sink[c].finished

\* The value carries a machine-readable kind: its own code, or the code of the
\* error the public method wrapped it in.
HasKind(v) == (v.kind = "error" /\ v.code # "") \/ v.outer # ""

\* C15: a call that has terminated either resolved with a Response (it has a
\* status) or rejected with a failure that carries a kind; it never resolved
\* with no value, whatever the retry value and the outcomes of the attempts.
C15_ResponseOrFailure ==
  \A c \in Calls :
    pc[c] = "done" =>
      \/ result[c].how = "resolved" /\ result[c].value.kind = "response"
                                    /\ result[c].value.status \in Statuses
      \/ result[c].how = "rejected" /\ HasKind(result[c].value)

\* The codes of the failed attempts of call c, in attempt order.
FailureCodes(c) ==
  LET F[k \in 0..Len(outcomes[c])] ==
        IF k = 0 THEN <<>>
        ELSE IF outcomes[c][k].kind = "error" THEN Append(F[k - 1], outcomes[c][k].code)
        ELSE F[k - 1]
  IN  F[Len(outcomes[c])]

\* The attempts of call c failed with more than one kind.
Heterogeneous(c) == Cardinality(Range(FailureCodes(c))) > 1

\* C16: a call whose attempts failed with different kinds and that rejects,
\* rejects with one failure, the failure of its last attempt, and the kinds of
\* the failures before it are attached to that failure as its history; no
\* aggregate takes its place.
C16_HistoryAttachedToFailure ==
  \A c \in Calls :
    pc[c] = "done" /\ result[c].how = "rejected" /\ Heterogeneous(c) =>
      /\ RejectedWith(c, Last(outcomes[c]))
      /\ result[c].value.code # RETRY_ERROR
      /\ result[c].retried = Front(FailureCodes(c))

\* Call c rejected because its loop had no turn left: the last attempt failed
\* with the counter at zero.
Exhausted(c) ==
  /\ pc[c] = "done"
  /\ result[c].how = "rejected"
  /\ options[c].retry # 0
  /\ retry[c] <= 0
  /\ outcomes[c] # <<>>
  /\ Last(outcomes[c]).kind = "error"

\* C17: a call that exhausted its attempts rejects with its most recent failure
\* when all its failures have one kind, and otherwise with the aggregate failure
\* of the retry loop, which carries the kinds of all the failures in attempt
\* order.
C17_AggregateOnMixedHistory ==
  \A c \in Calls :
    Exhausted(c) =>
      IF Heterogeneous(c)
      THEN /\ IsError(result[c].value, RETRY_ERROR)
           /\ result[c].retried = FailureCodes(c)
      ELSE RejectedWith(c, Last(outcomes[c]))

\* The failures of the attempts of call c, in attempt order.
OwnFailures(c) ==
  LET F[k \in 0..Len(outcomes[c])] ==
        IF k = 0 THEN <<>>
        ELSE IF outcomes[c][k].kind = "error" THEN Append(F[k - 1], outcomes[c][k])
        ELSE F[k - 1]
  IN  F[Len(outcomes[c])]

\* Call c is in its retry loop, or has left it.
InLoop(c) == pc[c] \notin {"off", "idle"} /\ options[c].retry # 0

\* C18: whatever the other calls of the engine do, the loop counter of a call is
\* its initial value less the attempts the call itself has started (less one
\* more when the loop has ended), the attempts it has started are the ones that
\* have settled and the one in flight, and its failure history holds the
\* failures of its own attempts in order, all of them or all but the last.
C18_RetryStateIsPerCall ==
  \A c \in Calls :
    InLoop(c) =>
      /\ attempts[c] \in {Len(outcomes[c]), Len(outcomes[c]) + 1}
      /\ retry[c] + attempts[c] \in
           {InitialRetry(impl, options[c].retry), InitialRetry(impl, options[c].retry) - 1}
      /\ errorTrace[c] \in
           {OwnFailures(c)} \cup (IF OwnFailures(c) = <<>> THEN {} ELSE {Front(OwnFailures(c))})

\* Two calls are in flight together with different retry states: one waits for
\* its second attempt with a failure recorded, the other is in its first.
C18_Witness ==
  \E c1, c2 \in Calls :
    /\ pc[c1] = "wait" /\ attempts[c1] = 1 /\ Len(errorTrace[c1]) = 1
    /\ pc[c2] = "resolve" /\ attempts[c2] = 1 /\ errorTrace[c2] = <<>>
    /\ retry[c1] = retry[c2]

\* A verb shortcut was called and its request was made.
Dispatched == dispatch.state \in {"sent", "failed"}

\* C19: the method of the request a verb shortcut makes is the verb of the
\* shortcut, whatever method the config of the engine and the argument of the
\* call carry.
C19_VerbFixesMethod ==
  Dispatched => dispatch.method = dispatch.verb

\* The base authority of the engine: the origin connect() stored, or the one of
\* the base of the config ("": there is none).
BaseAuthority ==
  LET cfg == dispatch.config IN
  IF cfg.authority # <<>> THEN Head(cfg.authority)
  ELSE IF ParseUrl(cfg.base).ok THEN ParseUrl(cfg.base).origin
  ELSE ""

\* The sequence s ends with the sequence t.
EndsWith(s, t) ==
  Len(t) <= Len(s) /\ SubSeq(s, Len(s) - Len(t) + 1, Len(s)) = t

\* C20: the target of a call with an absolute URL is that URL, whatever base
\* and path prefix the engine has; the target of a call with a relative URL is
\* at the base authority and its path ends with the URL of the call; a relative
\* URL on an engine without a base authority makes the call fail with an
\* invalid URL.
C20_UrlResolution ==
  LET u == dispatch.ownUrl IN
  Dispatched /\ u # <<>> =>
    /\ IsAbsolute(u) => dispatch.target = ParseUrl(u)
    /\ ~IsAbsolute(u) /\ BaseAuthority # "" =>
         /\ dispatch.target.ok
         /\ dispatch.target.origin = BaseAuthority
         /\ EndsWith(dispatch.target.path, u)
    /\ ~IsAbsolute(u) /\ BaseAuthority = "" => ~dispatch.target.ok

\* The value of the last header of h whose name is key in lower case.
LastValue(h, key) ==
  h[CHOOSE j \in 1..Len(h) :
      /\ ToLowerCase(h[j][1]) = key
      /\ \A k \in (j + 1)..Len(h) : ToLowerCase(h[k][1]) # key][2]

\* C21: the headers of the request have lower-case names, each once; a header
\* has the value of the last header of the call whose name is the same but for
\* the case; and the normalisation of the normalised headers gives them back.
C21_HeadersNormalized ==
  LET own == dispatch.ownHeaders
      h   == dispatch.headers
  IN
  Dispatched =>
    /\ \A j \in 1..Len(h) : ToLowerCase(h[j][1]) = h[j][1]
    /\ \A j, k \in 1..Len(h) : j # k => h[j][1] # h[k][1]
    /\ {h[j][1] : j \in 1..Len(h)} = {ToLowerCase(own[j][1]) : j \in 1..Len(own)}
    /\ \A j \in 1..Len(h) : h[j][2] = LastValue(own, h[j][1])
    /\ NormalizeHeaders(h) = h

\* Two headers of the call differed only by case and had different values: the
\* request has one header, with the value of the second.
C21_Witness ==
  /\ Dispatched
  /\ dispatch.ownHeaders = <<<<"Content-Type", "text/plain">>,
                             <<"content-type", "application/json">>>>
  /\ dispatch.headers = <<<<"content-type", "application/json">>>>

\* The headers of the request declare a JSON media type.
DeclaresJson == StartsWithJson(Get(dispatch.headers, "content-type"))

\* C22: a string body is written as it is; an object is written as JSON when
\* the content-type of the normalised headers declares JSON, and form-url-encoded
\* otherwise: { bar: 'baz' } is {"bar":"baz"} in the first case and bar=baz in
\* the second.
C22_BodyNormalized ==
  LET own == dispatch.ownBody IN
  Dispatched /\ own.type # "undefined" =>
    /\ dispatch.body.defined
    /\ own.type = "string" => dispatch.body.tokens = <<own.text>>
    /\ own.type = "object" /\ DeclaresJson =>
         /\ dispatch.body = JsonStringify(own)
         /\ own.pairs = <<<<"bar", "baz">>>> =>
              dispatch.body.tokens = <<"{", "\"", "bar", "\"", ":", "\"", "baz", "\"", "}">>
    /\ own.type = "object" /\ ~DeclaresJson =>
         /\ dispatch.body = QueryStringify(own)
         /\ own.pairs = <<<<"bar", "baz">>>> => dispatch.body.tokens = <<"bar", "=", "baz">>

\* { bar: 'baz' } was sent with a JSON content type given as Content-Type, and
\* was written as JSON.
C22_Witness ==
  /\ dispatch.state = "sent"
  /\ dispatch.ownBody = ObjectBody(<<<<"bar", "baz">>>>)
  /\ dispatch.ownHeaders = <<<<"Content-Type", "application/json; charset=utf-8">>>>
  /\ dispatch.body.tokens = <<"{", "\"", "bar", "\"", ":", "\"", "baz", "\"", "}">>

SessionKinds == {SESSION_DESTROYED, SESSION_CLOSED}

\* Call c is in the reconnect of its retry loop.
Reconnecting(c) == pc[c] \in {"rc_close", "cn_close", "cn_wait"}

ReconnectHasFailed(c) ==
  /\ pc[c] = "done"
  /\ result[c].how = "rejected"
  /\ outcomes[c] # <<>>
  /\ Last(outcomes[c]).kind = "error"
  /\ Last(outcomes[c]).code \in SessionKinds
  /\ retry[c] > 0

\* C24: when the reconnect after a SessionDestroyed or SessionClosed failure
\* fails, the call rejects with a RetryReconnectFailure that wraps the cause,
\* and no attempt follows the one the session refused.
C24_ReconnectFailureKind ==
  \A c \in Calls :
    ReconnectHasFailed(c) =>
      /\ IsError(result[c].value, RETRY_RECONNECT)
      /\ result[c].value.cause # ""
      /\ attempts[c] = Len(outcomes[c])

\* Attempts remain for call c after its attempt k.
AttemptsRemainAfter(c, k) ==
  options[c].retry # 0 /\ InitialRetry(impl, options[c].retry) - k > 0

\* C25: an attempt that resolved with a status of 400 or more did so because
\* doNotThrowOnErrorStatus is set, and left nothing in the failure history; when
\* attempts remained and the status is declared retryable the call went on to
\* another attempt, otherwise the call resolved with that response.
C25_SuccessBranchRetry ==
  \A c \in Calls : \A k \in 1..Len(outcomes[c]) :
    LET v == outcomes[c][k] IN
    v.kind = "response" /\ v.status >= 400 =>
      /\ options[c].doNotThrowOnErrorStatus
      /\ v.from = k
      /\ \A j \in 1..Len(errorTrace[c]) : errorTrace[c][j].from # k
      /\ IF AttemptsRemainAfter(c, k) /\ DeclaredRetryable(options[c], v.status)
         THEN attempts[c] > k
         ELSE ResolvedWith(c, v, k)

\* A 404 that was let through was retried while an attempt remained, and the
\* 404 of the last attempt is what the call resolved with; no failure was
\* recorded.
C25_Witness ==
  \E c \in Calls :
    /\ Len(outcomes[c]) = 2
    /\ outcomes[c][1].kind = "response" /\ outcomes[c][1].status = 404
    /\ ResolvedWith(c, outcomes[c][2], 2)
    /\ outcomes[c][2].status = 404
    /\ errorTrace[c] = <<>>

\* The failure e is fatal for a call with the options o: it has none of the
\* kinds the loop retries or, in part_000, reconnects for.
Fatal(o, e) ==
  /\ e.kind = "error"
  /\ ~Retryable(o, e)
  /\ ~(impl # "index_js" /\ e.code \in SessionKinds)

EndSettlement(c) ==
  IF ThrowOnStatus(options[c], exchange[c].status)
  THEN StatusFailure(exchange[c].status, exchange[c].body, attempts[c])
  ELSE StreamEnd(exchange[c].status, exchange[c].body, attempts[c])

C28_TimeoutIsClientTimeout ==
  \A c \in Calls :
    /\ exchange[c].errored = CLIENT_TIMEOUT =>
         /\ exchange[c].state \in {"errored", "closed"}
         /\ promise[c] = Failure(CLIENT_TIMEOUT, 0, "", attempts[c])
    /\ exchange[c].errored = TRANSPORT_ERROR =>
         /\ exchange[c].state \in {"errored", "closed"}
         /\ promise[c] = Failure(CLIENT_ERROR, 0, "reason", attempts[c])

\* The first attempt timed out, its exchange has closed since, and the call has
\* rejected with the timeout.
C28_Witness ==
  \E c \in Calls :
    /\ exchange[c].errored = CLIENT_TIMEOUT
    /\ exchange[c].state = "closed"
    /\ RejectedWith(c, Failure(CLIENT_TIMEOUT, 0, "", 1))
\* What a step of the timer of attempt n of call c may change: the exchange and
\* the attempt of that very attempt while the loop waits on it, and nothing
\* else. The loop of call c stays where it is (a wait stays a wait and its
\* budget is not spent), and so does everything of every other call.
Confined(c, n) ==
  /\ UNCHANGED <<pc, retry, errorTrace, attempts, outcomes, result, session, http2Session>>
  /\ \A d \in Calls \ {c} : exchange'[d] = exchange[d] /\ promise'[d] = promise[d]
  /\ (n # attempts[c] \/ pc[c] # "resolve") =>
       exchange'[c] = exchange[c] /\ promise'[c] = promise[c]
  /\ exchange'[c] # exchange[c] =>
       /\ exchange'[c] = [exchange[c] EXCEPT !.state = "errored", !.errored = CLIENT_TIMEOUT]
       /\ promise'[c] = Failure(CLIENT_TIMEOUT, 0, "", n)

\* C29: a timeout acts on the exchange its timer was set on and on nothing else:
\* not on a retryDelay wait of its call, not on a later attempt of its call, not
\* on an exchange of another call.
C29_TimeoutIsConfined ==
  [][\A c \in Calls, n \in 1..MaxAttempts : ClientTimeoutEvent(c, n) => Confined(c, n)]_vars

\* Both calls have an exchange in flight, the one of call 1 in its second
\* attempt after a timeout of the first, and the exchange of call 2 has timed
\* out since call 1 started that attempt.
C29_Witness ==
  /\ pc[1] = "resolve" /\ attempts[1] = 2 /\ promise[1].kind = "none"
  /\ exchange[1].state = "sent"
  /\ outcomes[1] = <<Failure(CLIENT_TIMEOUT, 0, "", 1)>>
  /\ exchange[2].errored = CLIENT_TIMEOUT
  /\ pc[2] = "resolve"

\* The body of the response of call c was being buffered when its stream failed.
ReadFailure(c) ==
  /\ exchange[c].status # 0
  /\ exchange[c].body = ""
  /\ exchange[c].errored \in {STREAM_ERROR, TRANSPORT_ERROR}

\* C30: a read failure of the response body while it is being buffered leaves
\* the attempt rejected with DownstreamError.
C30_ReadFailureIsDownstreamError ==
  \A c \in Calls :
    ReadFailure(c) => promise[c].kind = "error" /\ promise[c].code = DOWNSTREAM_ERROR

\* C31: the failure of a read failure is a DownstreamError that the loop
\* classifies: the process goes on, and once the loop has taken the outcome of
\* the attempt, the outcome is the DownstreamError; with retryOnDownstreamError
\* unset the call has rejected with it after that attempt, and with the flag set
\* and a turn of the loop left the call has not rejected with it.
C31_DownstreamErrorByFlag ==
  \A c \in Calls :
    ReadFailure(c) =>
      /\ ~crashed
      /\ Len(outcomes[c]) = attempts[c] =>
           /\ Last(outcomes[c]).code = DOWNSTREAM_ERROR
           /\ ~options[c].retryOnDownstreamError => RejectedWith(c, Last(outcomes[c]))
           /\ options[c].retryOnDownstreamError /\ retry[c] > 0 => pc[c] # "done"

\* The response of the exchange of call c failed the throw-policy gate.
GateFailed(c) ==
  /\ exchange[c].status # 0
  /\ ThrowOnStatus(options[c], exchange[c].status)

C33_TransferFraming ==
  Dispatched /\ dispatch.target.ok =>
    IF dispatch.upstream \/ dispatch.via = "h2"
    THEN dispatch.state = "sent" /\ dispatch.framing.chunked
    ELSE /\ dispatch.state = "sent"
         /\ ~dispatch.framing.chunked
         /\ dispatch.framing.length = IF dispatch.body.defined THEN Bytes(dispatch.body.tokens)
                                                               ELSE 0

\* The lines are events of 'name: value' lines with one empty line between two
\* events, no name twice in an event.
WellFormed(ls) ==
  /\ ls # <<>>
  /\ ls[1] # BlankLine /\ Last(ls) # BlankLine
  /\ \A k \in 1..(Len(ls) - 1) : ~(ls[k] = BlankLine /\ ls[k + 1] = BlankLine)
  /\ \A j, k \in 1..Len(ls) :
       j < k /\ ls[j] # BlankLine /\ ls[j].name = ls[k].name =>
         \E m \in j..k : ls[m] = BlankLine

\* The events of well-formed lines: the lines up to the first empty line, then
\* the events of the rest.
RECURSIVE EventsOf(_, _)
EventsOf(ls, cur) ==
  IF ls = <<>> THEN <<cur>>
  ELSE IF Head(ls) = BlankLine THEN <<cur>> \o EventsOf(Tail(ls), <<>>)
  ELSE EventsOf(Tail(ls), Append(cur, Head(ls)))

\* The value the field of line l decodes to.
ValueOf(l) == IF l.value = "1" THEN Parsed("1") ELSE Raw(l.value)

\* C34: a buffered event-stream body decodes to one record per event, in the
\* order of the events, and the record of an event has for every line of the
\* event its field with its value, a numeral parsed and other text raw.
C34_EventStreamDecoded ==
  dispatch.state = "ended" /\ WellFormed(dispatch.received) =>
    LET events == EventsOf(dispatch.received, <<>>)
    IN  /\ dispatch.decoded.kind = "events"
        /\ Len(dispatch.decoded.events) = Len(events)
        /\ \A e \in 1..Len(events) :
             /\ Len(dispatch.decoded.events[e]) = Len(events[e])
             /\ \A f \in 1..Len(events[e]) :
                  dispatch.decoded.events[e][f] = <<events[e][f].name, ValueOf(events[e][f])>>

\* The outcome of one resolution cycle whose attempt settled with v: the call
\* resolves with the response or rejects with the failure as it is (fetch of
\* part_000_b wraps both ways in the same way).
SingleCycle(v) ==
  IF v.kind = "response"
  THEN [how |-> "resolved", value |-> v, retried |-> <<>>]
  ELSE [how |-> "rejected",
        value |-> [v EXCEPT !.outer = IF impl = "part_000_b" THEN REQUEST_FAILED ELSE ""],
        retried |-> <<>>]

\* Call c runs through the retry loop and the loop makes one attempt.
LoopOfOne(c) == options[c].retry # 0 /\ Budget(c) = 1

\* C35: a call whose loop makes one attempt and a call that goes to #resolve
\* without the loop have the same outcome for the same settlement of the
\* attempt: one exchange, no wait, and the result of one resolution cycle.
C35_BudgetOneIsSingleCycle ==
  \A c \in Calls :
    LoopOfOne(c) \/ options[c].retry = 0 =>
      /\ attempts[c] <= 1
      /\ pc[c] \in {"idle", "resolve", "done"}
      /\ pc[c] = "done" =>
           /\ attempts[c] = 1
           /\ Len(outcomes[c]) = 1
           /\ result[c] = SingleCycle(outcomes[c][1])

\* A call through the loop with one attempt has rejected with the ClientError
\* of that attempt.
C35_Witness ==
  \E c \in Calls :
    /\ LoopOfOne(c)
    /\ pc[c] = "done"
    /\ result[c] = SingleCycle(Failure(CLIENT_ERROR, 0, "reason", 1))

\* The attempts of the loop of call c are used up and the last one failed.
LastAttemptFailed(c) ==
  /\ options[c].retry # 0
  /\ Len(outcomes[c]) > 0
  /\ Len(outcomes[c]) = Budget(c)
  /\ Last(outcomes[c]).kind = "error"

C37_SinkFedByResolvingAttempt ==
  \A c \in Calls :
    HasSink(c) =>
      /\ Len(sink[c].pipes) <= 1
      /\ \A k \in 1..Len(sink[c].pipes) : sink[c].pipes[k] = attempts[c]

\* C38: a close(), connect() or reconnect() of a caller that is pending
\* settles in the end (the promise the caller awaits resolves or rejects),
\* whatever the other callers of the instance do meanwhile, unless an uncaught
\* exception has ended the process.
C38_LifecycleCallsSettle ==
  \A u \in Users : (lcp[u] = "pending") ~> (lcp[u] # "pending" \/ crashed)

\* C39: after a reconnect the base, the stored path prefix and the authority of
\* the engine are those the preceding connect left, and every call URL resolves
\* to the target it resolved to before the reconnect.
C39_ReconnectRestoresParameters ==
  dispatch.reconnected =>
    /\ dispatch.config = dispatch.before
    /\ \A u \in CallUrls :
         TargetUrl(impl, dispatch.config, u) = TargetUrl(impl, dispatch.before, u)

\* C40: every attempt is directed by the session reference of the moment it
\* starts: to the session the reference holds when there is one, and over a
\* connection of its own (HTTP/1.1) exactly when there is none, whatever the
\* attempt before was sent over.
C40_TransportChosenPerAttempt ==
  [][\A c \in Calls :
       attempts'[c] = attempts[c] + 1 =>
         /\ exchange'[c].sid = http2Session
         /\ (exchange'[c].via = "h1") <=> (http2Session = 0)
         /\ exchange'[c].via = "h2" => ~IsClosed(session[http2Session])]_vars

\* An attempt went out on the session, the 'close' event of the session removed
\* the reference, and the next attempt of the call is on a connection of its own.
C40_Witness ==
  \E c \in Calls :
    /\ impl = "index_js"
    /\ attempts[c] > 1
    /\ exchange[c].prior = "h2"
    /\ exchange[c].via = "h1"
    /\ exchange[c].state = "sent"
    /\ http2Session = 0
    /\ session[1].state = "gone"

====
